---- MODULE Spec2Model ----
(***************************************************************************)
(* A model of go-sx: the matching between struct fields and database       *)
(* columns, the placeholder generator, and the statement builders and      *)
(* accessors built on them (helpers.go).                                   *)
(*                                                                         *)
(* Strings are sequences of one-character strings, so that splitting,      *)
(* joining, snake-casing and number formatting are computed, not assumed.  *)
(***************************************************************************)
EXTENDS Integers, Sequences, FiniteSets, TLC

(***************************************************************************)
(* Bounds of the model.                                                    *)
(***************************************************************************)
\* A struct type has 1..MaxFields fields.
MaxFields == 2
\* UpdateFieldsQuery is called with 0..MaxArgs field names.
MaxArgs == 2
\* The caller's own Placeholder is advanced up to MaxCount.
MaxCount == 12

(***************************************************************************)
(* Characters and strings.                                                 *)
(***************************************************************************)
UpperSeq ==
  << "A", "B", "C", "D", "E", "F", "G", "H", "I", "J", "K", "L", "M",
     "N", "O", "P", "Q", "R", "S", "T", "U", "V", "W", "X", "Y", "Z" >>

LowerSeq ==
  << "a", "b", "c", "d", "e", "f", "g", "h", "i", "j", "k", "l", "m",
     "n", "o", "p", "q", "r", "s", "t", "u", "v", "w", "x", "y", "z" >>

DigitSeq == << "0", "1", "2", "3", "4", "5", "6", "7", "8", "9" >>

Range(s) == { s[i] : i \in DOMAIN s }

\* The character classes [A-Z], [a-z] and [a-z0-9] of the two regexps.
IsUpper(c) == c \in Range(UpperSeq)

IsLower(c) == c \in Range(LowerSeq)

IsLowerOrDigit(c) == IsLower(c) \/ c \in Range(DigitSeq)

\* strings.ToLower on one character.
ToLowerChar(c) ==
  IF IsUpper(c) THEN LowerSeq[CHOOSE i \in DOMAIN UpperSeq : UpperSeq[i] = c]
  ELSE c

\* strings.ToLower.
ToLower(s) == [i \in DOMAIN s |-> ToLowerChar(s[i])]

\* strconv.Itoa.
RECURSIVE Itoa(_)
Itoa(n) ==
  IF n < 0 THEN << "-" >> \o Itoa(0 - n)
  ELSE IF n < 10 THEN << DigitSeq[n + 1] >>
  ELSE Itoa(n \div 10) \o << DigitSeq[(n % 10) + 1] >>

\* strings.Join.
RECURSIVE Join(_, _)
Join(elems, sep) ==
  IF Len(elems) = 0 THEN << >>
  ELSE IF Len(elems) = 1 THEN elems[1]
  ELSE elems[1] \o sep \o Join(Tail(elems), sep)

\* strings.Split(s, ","): the segments between the commas, always at least one.
RECURSIVE SplitFrom(_, _, _)
SplitFrom(s, i, cur) ==
  IF i > Len(s) THEN << cur >>
  ELSE IF s[i] = "," THEN << cur >> \o SplitFrom(s, i + 1, << >>)
  ELSE SplitFrom(s, i + 1, Append(cur, s[i]))

Split(s) == SplitFrom(s, 1, << >>)

(***************************************************************************)
(* Snake-casing.                                                           *)
(***************************************************************************)
\* The end of the longest run of [a-z] that starts at position j (j - 1 if none).
RECURSIVE LowerRunEnd(_, _)
LowerRunEnd(in, j) ==
  IF j <= Len(in) /\ IsLower(in[j]) THEN LowerRunEnd(in, j + 1) ELSE j - 1

\* matchWord.ReplaceAllString(in, "${1}_${2}") with matchWord = (.)([A-Z][a-z]+):
\* leftmost, non-overlapping, greedy matches, scanned from position i.
RECURSIVE ReplaceWord(_, _)
ReplaceWord(in, i) ==
  IF i > Len(in) THEN << >>
  ELSE IF i + 2 <= Len(in) /\ IsUpper(in[i + 1]) /\ IsLower(in[i + 2])
       THEN LET e == LowerRunEnd(in, i + 2)
            IN  << in[i], "_" >> \o SubSeq(in, i + 1, e) \o ReplaceWord(in, e + 1)
       ELSE << in[i] >> \o ReplaceWord(in, i + 1)

\* matchAcronym.ReplaceAllString(in, "${1}_${2}") with matchAcronym = ([a-z0-9])([A-Z]).
RECURSIVE ReplaceAcronym(_, _)
ReplaceAcronym(in, i) ==
  IF i > Len(in) THEN << >>
  ELSE IF i + 1 <= Len(in) /\ IsLowerOrDigit(in[i]) /\ IsUpper(in[i + 1])
       THEN << in[i], "_", in[i + 1] >> \o ReplaceAcronym(in, i + 2)
       ELSE << in[i] >> \o ReplaceAcronym(in, i + 1)

\* snakeCase with the bug of applying the two regexps in the other order.
snakeCaseAcronymFirst(in) == ToLower(ReplaceWord(ReplaceAcronym(in, 1), 1))

\* snakeCase with the bug of leaving out strings.ToLower.
snakeCaseNoLower(in) == ReplaceAcronym(ReplaceWord(in, 1), 1)

snakeCase(in) == ToLower(ReplaceAcronym(ReplaceWord(in, 1), 1))

(***************************************************************************)
(* Struct types, as reflection shows them.                                 *)
(***************************************************************************)
\* The fields a struct type of the model is declared from.  A field has a name,
\* the package path reflect reports (empty iff the field is exported), the
\* value of its `sx` tag and a kind: "int", or "ptr" for a pointer to an int.
FieldPool ==
  << [Name |-> << "P", "q" >>, PkgPath |-> << >>,
      Tag |-> << "c", "a", "t" >>, Kind |-> "ptr"],
     [Name |-> << "I", "d", "X" >>, PkgPath |-> << >>,
      Tag |-> << ",", "r", "e", "a", "d", "o", "n", "l", "y" >>, Kind |-> "int"],
     [Name |-> << "A", "b" >>, PkgPath |-> << >>,
      Tag |-> << >>, Kind |-> "int"],
     [Name |-> << "E", "f" >>, PkgPath |-> << >>,
      Tag |-> << "-" >>, Kind |-> "int"],
     [Name |-> << "g", "h" >>, PkgPath |-> << "m", "a", "i", "n" >>,
      Tag |-> << "g" >>, Kind |-> "int"],
     [Name |-> << "R", "o" >>, PkgPath |-> << >>,
      Tag |-> << "r", "e", "a", "d", "o", "n", "l", "y" >>, Kind |-> "int"],
     [Name |-> << "U", "V" >>, PkgPath |-> << >>,
      Tag |-> << ",", "x", ",", "r", "e", "a", "d", "o", "n", "l", "y" >>,
      Kind |-> "ptr"] >>

\* The strictly increasing sequences of pool positions of length 1..MaxFields.
Increasing(s) == \A i \in 1..(Len(s) - 1) : s[i] < s[i + 1]

FieldChoices ==
  UNION { { s \in [1..n -> DOMAIN FieldPool] : Increasing(s) } : n \in 1..MaxFields }

\* The struct type declared with the chosen fields, in that order; its name is
\* T followed by the first letter of each field.
StructOf(s) ==
  [Name |-> << "T" >> \o [i \in DOMAIN s |-> FieldPool[s[i]].Name[1]],
   Fields |-> [i \in DOMAIN s |-> FieldPool[s[i]]]]

StructTypes == { StructOf(s) : s \in FieldChoices }

\* A second struct type of the program, used for calls between two calls for
\* the first one.
OtherType ==
  [Name |-> << "O" >>,
   Fields |-> << [Name |-> << "Z", "o" >>, PkgPath |-> << >>,
                  Tag |-> << >>, Kind |-> "int"] >>]

(***************************************************************************)
(* The matching between struct fields and database columns.                *)
(***************************************************************************)
readonlyTag == << "r", "e", "a", "d", "o", "n", "l", "y" >>

\* HasReadonly with the bug of looking at every segment, the first included.
HasReadonlyAnywhere(tags, k) == \E j \in DOMAIN tags : tags[j] = readonlyTag

\* The loop over tags[1:] that looks for a readonly tag.
RECURSIVE HasReadonly(_, _)
HasReadonly(tags, k) ==
  IF k > Len(tags) THEN FALSE
  ELSE IF tags[k] = readonlyTag THEN TRUE
  ELSE HasReadonly(tags, k + 1)

\* The column of field number i (counted from 0) of reflectType.
ColumnAt(reflectType, i) ==
  LET field == reflectType.Fields[i + 1]
      tags == Split(field.Tag)
      colname == IF tags[1] = << >> THEN snakeCase(field.Name) ELSE tags[1]
  IN  [index |-> i, name |-> colname, readonly |-> HasReadonly(tags, 2)]

\* Whether the loop skips field number i: excluded with "-", or unexported.
Skipped(reflectType, i) ==
  LET field == reflectType.Fields[i + 1]
  IN  Split(field.Tag)[1] = << "-" >> \/ field.PkgPath # << >>

\* The loop of matchingOf over the fields i..n-1, from the columns and the
\* column map built so far.
RECURSIVE BuildColumns(_, _, _, _)
BuildColumns(reflectType, i, cols, colmap) ==
  IF i >= Len(reflectType.Fields) THEN [cols |-> cols, colmap |-> colmap]
  ELSE IF Skipped(reflectType, i) THEN BuildColumns(reflectType, i + 1, cols, colmap)
  ELSE LET col == ColumnAt(reflectType, i)
           name == reflectType.Fields[i + 1].Name
       IN  BuildColumns(reflectType, i + 1, Append(cols, col),
                        [f \in DOMAIN colmap \cup {name} |->
                           IF f = name THEN col ELSE colmap[f]])

\* The value of a call that ended in a panic, and the absent matching.
NoMatching == [reflectType |-> << >>, columns |-> << >>, columnMap |-> << >>]

NoPanic == << >>

PanicExpectedPtr ==
  << "s", "x", ":", " ", "e", "x", "p", "e", "c", "t", "e", "d", " ", "a", " ",
     "p", "o", "i", "n", "t", "e", "r", " ", "t", "o", " ", "a", " ",
     "s", "t", "r", "u", "c", "t" >>

PanicStruct == << "s", "x", ":", " ", "s", "t", "r", "u", "c", "t", " " >>

NoUsableFields ==
  << " ", "h", "a", "s", " ", "n", "o", " ", "u", "s", "a", "b", "l", "e", " ",
     "f", "i", "e", "l", "d", "s" >>

\* What reflect says when a struct is asked of a type that is none.
PanicReflect ==
  << "r", "e", "f", "l", "e", "c", "t", ":", " ", "N", "u", "m", "F", "i", "e", "l", "d", " ",
     "o", "f", " ", "n", "o", "n", "-", "s", "t", "r", "u", "c", "t", " ", "t", "y", "p", "e" >>

\* matchingOf with the bug of checking only that the argument is a pointer.
matchingOfPtrOnly(cache, datatype) ==
  IF datatype.Kind # "Ptr"
  THEN [panic |-> PanicExpectedPtr, m |-> NoMatching, cache |-> cache, hit |-> FALSE]
  ELSE IF datatype.Elem.Kind # "Struct"
  THEN [panic |-> PanicReflect, m |-> NoMatching, cache |-> cache, hit |-> FALSE]
  ELSE LET reflectType == datatype.Elem.Type
       IN  IF reflectType \in DOMAIN cache
           THEN [panic |-> NoPanic, m |-> cache[reflectType], cache |-> cache, hit |-> TRUE]
           ELSE LET b == BuildColumns(reflectType, 0, << >>, << >>)
                    m == [reflectType |-> reflectType, columns |-> b.cols,
                          columnMap |-> b.colmap]
                IN  IF Len(b.cols) = 0
                    THEN [panic |-> PanicStruct \o reflectType.Name \o NoUsableFields,
                          m |-> NoMatching, cache |-> cache, hit |-> FALSE]
                    ELSE [panic |-> NoPanic, m |-> m,
                          cache |-> [t \in DOMAIN cache \cup {reflectType} |->
                                       IF t = reflectType THEN m ELSE cache[t]],
                          hit |-> FALSE]

\* matchingOf with the bug of not looking at the number of columns.
matchingOfEmptyAllowed(cache, datatype) ==
  IF datatype.Kind # "Ptr" \/ datatype.Elem.Kind # "Struct"
  THEN [panic |-> PanicExpectedPtr, m |-> NoMatching, cache |-> cache, hit |-> FALSE]
  ELSE LET reflectType == datatype.Elem.Type
       IN  IF reflectType \in DOMAIN cache
           THEN [panic |-> NoPanic, m |-> cache[reflectType], cache |-> cache, hit |-> TRUE]
           ELSE LET b == BuildColumns(reflectType, 0, << >>, << >>)
                    m == [reflectType |-> reflectType, columns |-> b.cols,
                          columnMap |-> b.colmap]
                IN  [panic |-> NoPanic, m |-> m,
                     cache |-> [t \in DOMAIN cache \cup {reflectType} |->
                                  IF t = reflectType THEN m ELSE cache[t]],
                     hit |-> FALSE]

\* matchingOf with the bug of putting the matching into the cache before its
\* columns are collected.
matchingOfCachedEarly(cache, datatype) ==
  IF datatype.Kind # "Ptr" \/ datatype.Elem.Kind # "Struct"
  THEN [panic |-> PanicExpectedPtr, m |-> NoMatching, cache |-> cache, hit |-> FALSE]
  ELSE LET reflectType == datatype.Elem.Type
       IN  IF reflectType \in DOMAIN cache
           THEN [panic |-> NoPanic, m |-> cache[reflectType], cache |-> cache, hit |-> TRUE]
           ELSE LET b == BuildColumns(reflectType, 0, << >>, << >>)
                    m == [reflectType |-> reflectType, columns |-> b.cols,
                          columnMap |-> b.colmap]
                    early == [reflectType |-> reflectType, columns |-> << >>,
                              columnMap |-> << >>]
                IN  IF Len(b.cols) = 0
                    THEN [panic |-> PanicStruct \o reflectType.Name \o NoUsableFields,
                          m |-> NoMatching, cache |-> cache, hit |-> FALSE]
                    ELSE [panic |-> NoPanic, m |-> m,
                          cache |-> [t \in DOMAIN cache \cup {reflectType} |->
                                       IF t = reflectType THEN early ELSE cache[t]],
                          hit |-> FALSE]

\* matchingOf with the bug of storing the new matching in a fresh map, which
\* drops the matchings of the other types.
matchingOfFreshMap(cache, datatype) ==
  IF datatype.Kind # "Ptr" \/ datatype.Elem.Kind # "Struct"
  THEN [panic |-> PanicExpectedPtr, m |-> NoMatching, cache |-> cache, hit |-> FALSE]
  ELSE LET reflectType == datatype.Elem.Type
       IN  IF reflectType \in DOMAIN cache
           THEN [panic |-> NoPanic, m |-> cache[reflectType], cache |-> cache, hit |-> TRUE]
           ELSE LET b == BuildColumns(reflectType, 0, << >>, << >>)
                    m == [reflectType |-> reflectType, columns |-> b.cols,
                          columnMap |-> b.colmap]
                IN  IF Len(b.cols) = 0
                    THEN [panic |-> PanicStruct \o reflectType.Name \o NoUsableFields,
                          m |-> NoMatching, cache |-> cache, hit |-> FALSE]
                    ELSE [panic |-> NoPanic, m |-> m,
                          cache |-> [t \in {reflectType} |-> m],
                          hit |-> FALSE]

\* matchingOf(datatype) run against the cache: the matching returned (or the
\* panic message), the cache afterwards and whether the cache served the call.
matchingOf(cache, datatype) ==
  IF datatype.Kind # "Ptr" \/ datatype.Elem.Kind # "Struct"
  THEN [panic |-> PanicExpectedPtr, m |-> NoMatching, cache |-> cache, hit |-> FALSE]
  ELSE LET reflectType == datatype.Elem.Type
       IN  IF reflectType \in DOMAIN cache
           THEN [panic |-> NoPanic, m |-> cache[reflectType], cache |-> cache, hit |-> TRUE]
           ELSE LET b == BuildColumns(reflectType, 0, << >>, << >>)
                    m == [reflectType |-> reflectType, columns |-> b.cols,
                          columnMap |-> b.colmap]
                IN  IF Len(b.cols) = 0
                    THEN [panic |-> PanicStruct \o reflectType.Name \o NoUsableFields,
                          m |-> NoMatching, cache |-> cache, hit |-> FALSE]
                    ELSE [panic |-> NoPanic, m |-> m,
                          cache |-> [t \in DOMAIN cache \cup {reflectType} |->
                                       IF t = reflectType THEN m ELSE cache[t]],
                          hit |-> FALSE]

(***************************************************************************)
(* The state of the program.                                               *)
(***************************************************************************)
VARIABLES
  structType,            \* the struct type the program declares for its records
  heap,                  \* the struct objects of the caller, by object name
  matchingCache,         \* var matchingCache: the matchings by struct type
  numberedPlaceholders,  \* var numberedPlaceholders
  p,                     \* a Placeholder variable of the caller
  ret,                   \* the last call and what it returned
  resolved,              \* the matchings that calls of matchingOf returned so far
  nextCalls,             \* how p was declared and the calls of Next on it since
  pc,                    \* where the caller's call of Do stands
  dbCalls,               \* the calls made on the database and the transaction during it
  err,                   \* the named result err of DoContext
  panicValue,            \* the value of the panic under way
  fEnd,                  \* how the callback f ended
  scope,                 \* the calls of Stmt.Do and Rows.Each that f is in, the innermost last
  threads,               \* the goroutines that call into the package, and where each stands
  mu,                    \* var matchingCacheMu: the goroutine that holds it
  built                  \* how many matchings were constructed, by struct type

\* The state of a call of Do.
doVars == << pc, dbCalls, err, panicValue, fEnd, scope >>

\* The goroutines and the mutex of the cache.
thVars == << threads, mu, built >>

\* The state of the statement builders.
sxVars == << structType, heap, matchingCache, numberedPlaceholders, p, ret, resolved,
            nextCalls, thVars >>

vars == << structType, heap, matchingCache, numberedPlaceholders, p, ret, resolved,
           nextCalls, doVars, thVars >>

(***************************************************************************)
(* Field values.  An int field holds a number; a pointer field is nil or   *)
(* points at a number.                                                     *)
(***************************************************************************)
IntVal(n) == [kind |-> "int", isNil |-> FALSE, v |-> n]

PtrTo(n) == [kind |-> "ptr", isNil |-> FALSE, v |-> n]

NilPtr == [kind |-> "ptr", isNil |-> TRUE, v |-> 0]

\* The numbers of the model: zero and a number that is not zero.
IntValues == {0, 7}

\* The values a field of the given kind can hold.
ValuesOfKind(kind) ==
  IF kind = "ptr" THEN {NilPtr} \cup { PtrTo(n) : n \in IntValues }
  ELSE { IntVal(n) : n \in IntValues }

\* The zero value of a kind.
ZeroOfKind(kind) == IF kind = "ptr" THEN NilPtr ELSE IntVal(0)

\* The zero struct T{} of a type.
ZeroStruct(t) == [i \in DOMAIN t.Fields |-> ZeroOfKind(t.Fields[i].Kind)]

\* valueIsZero: the zero value of the kind; for a pointer, nil.
valueIsZero(val) == IF val.kind = "ptr" THEN val.isNil ELSE val.v = 0

\* reflect.Value.Elem on a non-nil pointer: the value pointed at.
ElemOf(val) == IntVal(val.v)

\* A pointer to the struct object obj of type t, as an interface{} argument.
PtrToStruct(t, obj) ==
  [Kind |-> "Ptr", Elem |-> [Kind |-> "Struct", Type |-> t], obj |-> obj]

\* The arguments that are no pointer to a struct: nil, a struct passed by
\* value, a pointer to an int, and a nil pointer of a struct type.
NilArgument == [Kind |-> "Invalid"]

StructValue(t) == [Kind |-> "Struct", Type |-> t]

PtrToInt == [Kind |-> "Ptr", Elem |-> [Kind |-> "Int"]]

NilPtrToStruct == [Kind |-> "Ptr", Elem |-> [Kind |-> "Invalid"]]

\* reflect.ValueOf(data).Elem(): the struct a pointer argument points at.
Instance(data) == heap[data.obj]

\* val.Field(i).Addr(): the address of field number i of the struct of data.
FieldAddr(data, i) == [obj |-> data.obj, index |-> i]

(***************************************************************************)
(* Placeholders.                                                           *)
(***************************************************************************)
\* Placeholder.String.
PlaceholderString(ph) ==
  IF numberedPlaceholders THEN << "$" >> \o Itoa(ph) ELSE << "?" >>

\* Placeholder.Next with the bug of rendering before it increments.
PlaceholderNextPost(ph) == [p |-> ph + 1, s |-> PlaceholderString(ph)]

\* Placeholder.Next with the bug of counting by two in ? mode.
PlaceholderNextPlainTwice(ph) ==
  IF numberedPlaceholders
  THEN [p |-> ph + 1, s |-> PlaceholderString(ph + 1)]
  ELSE [p |-> ph + 2, s |-> PlaceholderString(ph + 2)]

\* Placeholder.Next: the placeholder afterwards and the string returned.
PlaceholderNext(ph) == [p |-> ph + 1, s |-> PlaceholderString(ph + 1)]

(***************************************************************************)
(* The statement builders.                                                 *)
(***************************************************************************)
kSELECT == << "S", "E", "L", "E", "C", "T" >>

kFROM == << " ", "F", "R", "O", "M", " " >>

kINSERT == << "I", "N", "S", "E", "R", "T", " ", "I", "N", "T", "O", " " >>

kVALUES == << ")", " ", "V", "A", "L", "U", "E", "S", " " >>

kUPDATE == << "U", "P", "D", "A", "T", "E", " " >>

kSET == << " ", "S", "E", "T", " " >>

NoWriteableFields ==
  << " ", "h", "a", "s", " ", "n", "o", " ", "w", "r", "i", "t", "e", "a", "b", "l", "e", " ",
     "f", "i", "e", "l", "d", "s" >>

NoUsableField ==
  << " ", "h", "a", "s", " ", "n", "o", " ", "u", "s", "a", "b", "l", "e", " ",
     "f", "i", "e", "l", "d", " " >>

PanicNoFields ==
  << "U", "p", "d", "a", "t", "e", "F", "i", "e", "l", "d", "s", "Q", "u", "e", "r", "y", " ",
     "r", "e", "q", "u", "i", "r", "e", "s", " ", "a", "t", " ", "l", "e", "a", "s", "t", " ",
     "o", "n", "e", " ", "f", "i", "e", "l", "d" >>

\* What a call of matchingOf handed to its caller: nothing if it panicked.
CallsOf(r) == IF r.panic # NoPanic THEN << >> ELSE << [hit |-> r.hit, m |-> r.m] >>

\* What a call returns when nothing else is said, r being what its call of
\* matchingOf gave: no panic, no error, empty results.
Returned(op, data, r) ==
  [op |-> op, data |-> data, panic |-> NoPanic, err |-> << >>, text |-> << >>,
   values |-> << >>, addrs |-> << >>, list |-> << >>, calls |-> CallsOf(r),
   cache |-> r.cache]

\* A call that ended in a panic with the given message.
Panicked(op, data, r, msg) == [Returned(op, data, r) EXCEPT !.panic = msg]

\* The loop of SelectQuery and SelectAliasQuery over the columns from number i:
\* the separator, the prefix (empty, or the alias and a dot) and the name.
RECURSIVE SelectLoop(_, _, _, _)
SelectLoop(columns, i, sep, prefix) ==
  IF i > Len(columns) THEN << >>
  ELSE << sep >> \o prefix \o columns[i].name \o SelectLoop(columns, i + 1, ",", prefix)

SelectQuery(cache, table, datatype) ==
  LET r == matchingOf(cache, datatype)
  IN  IF r.panic # NoPanic THEN Panicked("SelectQuery", datatype, r, r.panic)
      ELSE [Returned("SelectQuery", datatype, r) EXCEPT
              !.text = kSELECT \o SelectLoop(r.m.columns, 1, " ", << >>) \o kFROM \o table]

SelectAliasQuery(cache, table, alias, datatype) ==
  LET r == matchingOf(cache, datatype)
  IN  IF r.panic # NoPanic THEN Panicked("SelectAliasQuery", datatype, r, r.panic)
      ELSE [Returned("SelectAliasQuery", datatype, r) EXCEPT
              !.text = kSELECT \o SelectLoop(r.m.columns, 1, " ", alias \o << "." >>)
                       \o kFROM \o table \o << " " >> \o alias]

\* InsertLoop with the bug of writing the read-only columns too.
RECURSIVE InsertLoopAll(_, _, _)
InsertLoopAll(columns, i, sep) ==
  IF i > Len(columns) THEN [text |-> << >>, n |-> 0]
  ELSE LET rest == InsertLoopAll(columns, i + 1, ",")
       IN  [text |-> << sep >> \o columns[i].name \o rest.text, n |-> rest.n + 1]

\* The first loop of InsertQuery over the columns from number i: the text
\* written and the number n of columns written.
RECURSIVE InsertLoop(_, _, _)
InsertLoop(columns, i, sep) ==
  IF i > Len(columns) THEN [text |-> << >>, n |-> 0]
  ELSE IF ~columns[i].readonly
       THEN LET rest == InsertLoop(columns, i + 1, ",")
            IN  [text |-> << sep >> \o columns[i].name \o rest.text, n |-> rest.n + 1]
       ELSE InsertLoop(columns, i + 1, sep)

\* The second loop of InsertQuery: for p := Placeholder(0); p < Placeholder(n);
RECURSIVE InsertPlaceholders(_, _, _)
InsertPlaceholders(ph, n, sep) ==
  IF ph < n
  THEN LET nx == PlaceholderNext(ph)
       IN  << sep >> \o nx.s \o InsertPlaceholders(nx.p, n, ",")
  ELSE << >>

\* InsertQuery with the bug of not looking at n.
InsertQueryUnchecked(cache, table, datatype) ==
  LET r == matchingOf(cache, datatype)
  IN  IF r.panic # NoPanic THEN Panicked("InsertQuery", datatype, r, r.panic)
      ELSE LET l == InsertLoop(r.m.columns, 1, "(")
           IN  [Returned("InsertQuery", datatype, r) EXCEPT
                  !.text = kINSERT \o table \o << " " >> \o l.text \o kVALUES
                           \o InsertPlaceholders(0, l.n, "(") \o << ")" >>]

InsertQuery(cache, table, datatype) ==
  LET r == matchingOf(cache, datatype)
  IN  IF r.panic # NoPanic THEN Panicked("InsertQuery", datatype, r, r.panic)
      ELSE LET l == InsertLoop(r.m.columns, 1, "(")
           IN  IF l.n = 0
               THEN LET r2 == matchingOf(r.cache, datatype)
                    IN  [Panicked("InsertQuery", datatype, r2,
                                  PanicStruct \o r2.m.reflectType.Name \o NoWriteableFields)
                         EXCEPT !.calls = CallsOf(r) \o CallsOf(r2)]
               ELSE [Returned("InsertQuery", datatype, r) EXCEPT
                       !.text = kINSERT \o table \o << " " >> \o l.text \o kVALUES
                                \o InsertPlaceholders(0, l.n, "(") \o << ")" >>]

\* BoundValue with the bug of binding the pointer.
BoundValueRaw(val) == val

\* The value bound for a field by UpdateQuery: for a pointer, the value pointed at.
BoundValue(val) == IF val.kind = "ptr" THEN ElemOf(val) ELSE val

\* UpdateLoop with the bug of writing the read-only columns too.
RECURSIVE UpdateLoopAll(_, _, _, _)
UpdateLoopAll(columns, i, instance, acc) ==
  IF i > Len(columns) THEN acc
  ELSE LET c == columns[i]
           val == instance[c.index + 1]
       IN  IF ~valueIsZero(val)
           THEN LET nx == PlaceholderNext(acc.p)
                IN  UpdateLoopAll(columns, i + 1, instance,
                                  [columns |-> Append(acc.columns,
                                                      c.name \o << "=" >> \o nx.s),
                                   values |-> Append(acc.values, BoundValue(val)),
                                   p |-> nx.p])
           ELSE UpdateLoopAll(columns, i + 1, instance, acc)

\* The loop of UpdateQuery over the columns from number i; acc holds the SET
\* entries, the values and the placeholder so far.
RECURSIVE UpdateLoop(_, _, _, _)
UpdateLoop(columns, i, instance, acc) ==
  IF i > Len(columns) THEN acc
  ELSE LET c == columns[i]
           val == instance[c.index + 1]
       IN  IF ~c.readonly /\ ~valueIsZero(val)
           THEN LET nx == PlaceholderNext(acc.p)
                IN  UpdateLoop(columns, i + 1, instance,
                               [columns |-> Append(acc.columns, c.name \o << "=" >> \o nx.s),
                                values |-> Append(acc.values, BoundValue(val)),
                                p |-> nx.p])
           ELSE UpdateLoop(columns, i + 1, instance, acc)

UpdateQuery(cache, table, data) ==
  LET r == matchingOf(cache, data)
  IN  IF r.panic # NoPanic THEN Panicked("UpdateQuery", data, r, r.panic)
      ELSE LET l == UpdateLoop(r.m.columns, 1, Instance(data),
                               [columns |-> << >>, values |-> << >>, p |-> 1])
           IN  IF Len(l.columns) = 0 THEN Returned("UpdateQuery", data, r)
               ELSE [Returned("UpdateQuery", data, r) EXCEPT
                       !.text = kUPDATE \o table \o kSET \o Join(l.columns, << "," >>),
                       !.values = l.values]

\* UpdateAllLoop with the bug of advancing the placeholder for the read-only
\* columns too.
RECURSIVE UpdateAllLoopGaps(_, _, _)
UpdateAllLoopGaps(columns, i, acc) ==
  IF i > Len(columns) THEN acc
  ELSE LET nx == PlaceholderNext(acc.p)
       IN  IF ~columns[i].readonly
           THEN UpdateAllLoopGaps(columns, i + 1,
                                  [columns |-> Append(acc.columns,
                                                      columns[i].name \o << "=" >> \o nx.s),
                                   p |-> nx.p])
           ELSE UpdateAllLoopGaps(columns, i + 1, [acc EXCEPT !.p = nx.p])

\* The loop of UpdateAllQuery over the columns from number i.
RECURSIVE UpdateAllLoop(_, _, _)
UpdateAllLoop(columns, i, acc) ==
  IF i > Len(columns) THEN acc
  ELSE IF ~columns[i].readonly
       THEN LET nx == PlaceholderNext(acc.p)
            IN  UpdateAllLoop(columns, i + 1,
                              [columns |-> Append(acc.columns,
                                                  columns[i].name \o << "=" >> \o nx.s),
                               p |-> nx.p])
       ELSE UpdateAllLoop(columns, i + 1, acc)

\* UpdateAllQuery with the bug of aborting as InsertQuery does when no column
\* is writeable.
UpdateAllQueryChecked(cache, table, data) ==
  LET r == matchingOf(cache, data)
  IN  IF r.panic # NoPanic THEN Panicked("UpdateAllQuery", data, r, r.panic)
      ELSE LET l == UpdateAllLoop(r.m.columns, 1, [columns |-> << >>, p |-> 1])
           IN  IF l.columns = << >>
               THEN Panicked("UpdateAllQuery", data, r,
                             PanicStruct \o r.m.reflectType.Name \o NoWriteableFields)
               ELSE [Returned("UpdateAllQuery", data, r) EXCEPT
                       !.text = kUPDATE \o table \o kSET \o Join(l.columns, << "," >>)]

UpdateAllQuery(cache, table, data) ==
  LET r == matchingOf(cache, data)
  IN  IF r.panic # NoPanic THEN Panicked("UpdateAllQuery", data, r, r.panic)
      ELSE LET l == UpdateAllLoop(r.m.columns, 1, [columns |-> << >>, p |-> 1])
           IN  [Returned("UpdateAllQuery", data, r) EXCEPT
                  !.text = kUPDATE \o table \o kSET \o Join(l.columns, << "," >>)]

\* UpdateFieldsLoop with the bug of leaving out the zero values, as UpdateQuery does.
RECURSIVE UpdateFieldsLoopNonZero(_, _, _, _, _)
UpdateFieldsLoopNonZero(m, fields, i, instance, acc) ==
  IF i > Len(fields) THEN acc
  ELSE IF fields[i] \in DOMAIN m.columnMap
       THEN LET c == m.columnMap[fields[i]]
                nx == PlaceholderNext(acc.p)
            IN  IF valueIsZero(instance[c.index + 1])
                THEN UpdateFieldsLoopNonZero(m, fields, i + 1, instance, acc)
                ELSE UpdateFieldsLoopNonZero(m, fields, i + 1, instance,
                                             [acc EXCEPT
                                                !.columns = Append(@, c.name \o << "=" >> \o nx.s),
                                                !.values = Append(@, instance[c.index + 1]),
                                                !.p = nx.p])
       ELSE [acc EXCEPT !.panic = << "s", "t", "r", "u", "c", "t", " " >>
                                  \o m.reflectType.Name \o NoUsableField \o fields[i]]

\* UpdateFieldsLoop with the bug of passing over a name that is not in the
\* column map.
RECURSIVE UpdateFieldsLoopSkips(_, _, _, _, _)
UpdateFieldsLoopSkips(m, fields, i, instance, acc) ==
  IF i > Len(fields) THEN acc
  ELSE IF fields[i] \in DOMAIN m.columnMap
       THEN LET c == m.columnMap[fields[i]]
                nx == PlaceholderNext(acc.p)
            IN  UpdateFieldsLoopSkips(m, fields, i + 1, instance,
                                      [acc EXCEPT
                                         !.columns = Append(@, c.name \o << "=" >> \o nx.s),
                                         !.values = Append(@, instance[c.index + 1]),
                                         !.p = nx.p])
       ELSE UpdateFieldsLoopSkips(m, fields, i + 1, instance, acc)

\* The loop of UpdateFieldsQuery over the field names from number i; acc also
\* holds the panic message once a name is not in the column map.
RECURSIVE UpdateFieldsLoop(_, _, _, _, _)
UpdateFieldsLoop(m, fields, i, instance, acc) ==
  IF i > Len(fields) THEN acc
  ELSE IF fields[i] \in DOMAIN m.columnMap
       THEN LET c == m.columnMap[fields[i]]
                nx == PlaceholderNext(acc.p)
            IN  UpdateFieldsLoop(m, fields, i + 1, instance,
                                 [acc EXCEPT
                                    !.columns = Append(@, c.name \o << "=" >> \o nx.s),
                                    !.values = Append(@, instance[c.index + 1]),
                                    !.p = nx.p])
       ELSE [acc EXCEPT !.panic = << "s", "t", "r", "u", "c", "t", " " >>
                                  \o m.reflectType.Name \o NoUsableField \o fields[i]]

UpdateFieldsQuery(cache, table, data, fields) ==
  LET r == matchingOf(cache, data)
  IN  IF r.panic # NoPanic THEN Panicked("UpdateFieldsQuery", data, r, r.panic)
      ELSE IF Len(fields) = 0
           THEN Panicked("UpdateFieldsQuery", data, r, PanicNoFields)
           ELSE LET l == UpdateFieldsLoop(r.m, fields, 1, Instance(data),
                                          [columns |-> << >>, values |-> << >>, p |-> 1,
                                           panic |-> NoPanic])
                IN  IF l.panic # NoPanic
                    THEN Panicked("UpdateFieldsQuery", data, r, l.panic)
                    ELSE [Returned("UpdateFieldsQuery", data, r) EXCEPT
                            !.text = kUPDATE \o table \o kSET \o Join(l.columns, << "," >>),
                            !.values = l.values]

(***************************************************************************)
(* The accessors.                                                          *)
(***************************************************************************)
\* AddrsLoop with the bug of taking the i-th field for the i-th column.
AddrsLoopByPosition(columns, dest) ==
  [i \in DOMAIN columns |-> FieldAddr(dest, i - 1)]

\* The loop of Addrs over the columns.
AddrsLoop(columns, dest) ==
  [i \in DOMAIN columns |-> FieldAddr(dest, columns[i].index)]

Addrs(cache, dest) ==
  LET r == matchingOf(cache, dest)
  IN  IF r.panic # NoPanic THEN Panicked("Addrs", dest, r, r.panic)
      ELSE [Returned("Addrs", dest, r) EXCEPT
              !.addrs = AddrsLoop(r.m.columns, dest)]

\* ValuesLoop with the bug of leaving out the zero values, as UpdateQuery does.
RECURSIVE ValuesLoopNonZero(_, _, _)
ValuesLoopNonZero(columns, i, val) ==
  IF i > Len(columns) THEN << >>
  ELSE IF ~columns[i].readonly /\ ~valueIsZero(val[columns[i].index + 1])
       THEN << val[columns[i].index + 1] >> \o ValuesLoopNonZero(columns, i + 1, val)
       ELSE ValuesLoopNonZero(columns, i + 1, val)

\* The loop of Values over the columns from number i.
RECURSIVE ValuesLoop(_, _, _)
ValuesLoop(columns, i, val) ==
  IF i > Len(columns) THEN << >>
  ELSE IF ~columns[i].readonly
       THEN << val[columns[i].index + 1] >> \o ValuesLoop(columns, i + 1, val)
       ELSE ValuesLoop(columns, i + 1, val)

Values(cache, data) ==
  LET r == matchingOf(cache, data)
  IN  IF r.panic # NoPanic THEN Panicked("Values", data, r, r.panic)
      ELSE [Returned("Values", data, r) EXCEPT
              !.values = ValuesLoop(r.m.columns, 1, Instance(data))]

\* matching.columnList.
columnList(m) == [i \in DOMAIN m.columns |-> m.columns[i].name]

\* matching.columnWriteableList.
RECURSIVE WriteableFrom(_, _)
WriteableFrom(columns, i) ==
  IF i > Len(columns) THEN << >>
  ELSE IF ~columns[i].readonly
       THEN << columns[i].name >> \o WriteableFrom(columns, i + 1)
       ELSE WriteableFrom(columns, i + 1)

columnWriteableList(m) == WriteableFrom(m.columns, 1)

Columns(cache, datatype) ==
  LET r == matchingOf(cache, datatype)
  IN  IF r.panic # NoPanic THEN Panicked("Columns", datatype, r, r.panic)
      ELSE [Returned("Columns", datatype, r) EXCEPT !.list = columnList(r.m)]

ColumnsWriteable(cache, datatype) ==
  LET r == matchingOf(cache, datatype)
  IN  IF r.panic # NoPanic THEN Panicked("ColumnsWriteable", datatype, r, r.panic)
      ELSE [Returned("ColumnsWriteable", datatype, r) EXCEPT
              !.list = columnWriteableList(r.m)]

\* matching.columnOf: the column of a field, or the panic.
columnOf(m, field) ==
  IF field \in DOMAIN m.columnMap
  THEN [panic |-> NoPanic, c |-> m.columnMap[field]]
  ELSE [panic |-> PanicStruct \o m.reflectType.Name \o NoUsableField \o field,
        c |-> << >>]

\* ValueOf with the bug of taking the column's place in the list for the
\* field's place in the struct.
ValueOfByColumn(cache, data, field) ==
  LET r == matchingOf(cache, data)
  IN  IF r.panic # NoPanic THEN Panicked("ValueOf", data, r, r.panic)
      ELSE LET l == columnOf(r.m, field)
           IN  IF l.panic # NoPanic THEN Panicked("ValueOf", data, r, l.panic)
               ELSE LET k == CHOOSE k \in DOMAIN r.m.columns : r.m.columns[k] = l.c
                    IN  [Returned("ValueOf", data, r) EXCEPT
                           !.values = << Instance(data)[k] >>]

ValueOf(cache, data, field) ==
  LET r == matchingOf(cache, data)
  IN  IF r.panic # NoPanic THEN Panicked("ValueOf", data, r, r.panic)
      ELSE LET l == columnOf(r.m, field)
           IN  IF l.panic # NoPanic THEN Panicked("ValueOf", data, r, l.panic)
               ELSE [Returned("ValueOf", data, r) EXCEPT
                       !.values = << Instance(data)[l.c.index + 1] >>]

\* ColumnOf with the bug of using the lookup that panics.
ColumnOfStrict(cache, datatype, field) ==
  LET r == matchingOf(cache, datatype)
  IN  IF r.panic # NoPanic THEN Panicked("ColumnOf", datatype, r, r.panic)
      ELSE LET l == columnOf(r.m, field)
           IN  IF l.panic # NoPanic THEN Panicked("ColumnOf", datatype, r, l.panic)
               ELSE [Returned("ColumnOf", datatype, r) EXCEPT !.text = l.c.name]

ColumnOf(cache, datatype, field) ==
  LET r == matchingOf(cache, datatype)
  IN  IF r.panic # NoPanic THEN Panicked("ColumnOf", datatype, r, r.panic)
      ELSE IF field \in DOMAIN r.m.columnMap
           THEN [Returned("ColumnOf", datatype, r) EXCEPT !.text = r.m.columnMap[field].name]
           ELSE [Returned("ColumnOf", datatype, r) EXCEPT
                   !.err = << "s", "t", "r", "u", "c", "t", " " >>
                           \o r.m.reflectType.Name \o NoUsableField \o field]

\* A direct call of matchingOf, as the tests of the package make it.
MatchingOfCall(cache, datatype) ==
  LET r == matchingOf(cache, datatype)
  IN  Panicked("matchingOf", datatype, r, r.panic)

(***************************************************************************)
(* Transactions: Do, the Must*** methods and Fail.                         *)
(***************************************************************************)
\* The number of statements a callback runs before it ends.
MaxSteps == 2

\* The error values of the database and of the callback; nil is no error.
nil == "nil"

Errors == { "x-ray error", "zulu error" }

\* The values a panic carries: an sxError{err}, or an error of another type.
sxError(e) == [type |-> "sxError", err |-> e]

OtherPanic(v) == [type |-> "error", err |-> v]

\* recover() gives nil: there is no panic under way.
NotPanicking == [type |-> "none", err |-> nil]

\* The callback is running, or was not called.
NotEnded == [type |-> "running", err |-> nil]

\* f returned.
Completed == [type |-> "return", err |-> nil]

\* A call on the database or on the transaction, and the error it gave.
DbCall(call, e) == [call |-> call, err |-> e]

\* DoContext as it would be if it went on after a failed BeginTx.
DoContextRunsAnyway ==
  /\ pc = "caller"
  /\ \E e \in Errors \cup {nil} :
       /\ dbCalls' = Append(dbCalls, DbCall("BeginTx", e))
       /\ err' = e
       /\ pc' = "f"
  /\ UNCHANGED << panicValue, fEnd, scope, sxVars >>

\* DoContext up to the call of f: db.BeginTx, and the return when it fails.
DoContext ==
  /\ pc = "caller"
  /\ \E e \in Errors \cup {nil} :
       /\ dbCalls' = Append(dbCalls, DbCall("BeginTx", e))
       /\ err' = e
       /\ pc' = IF e # nil THEN "returned" ELSE "f"
  /\ UNCHANGED << panicValue, fEnd, scope, sxVars >>

\* The rows of a result set.
MaxRows == 2

\* A call of Stmt.Do or Rows.Each ("Stmt" or "Rows") as it begins: the number
\* in dbCalls of the call that returned its Stmt or Rows, where it
\* stands ("f" in its callback, "Next" at the head of the loop of Each,
\* "closed" when its deferred Close has run), the rows that rows.Next() has
\* reported, the error the result set ended with, the rows the callback was
\* called for, the calls of the callback that returned, whether the callback
\* has scanned its row, and how the call ended.
Frame(kind, at) ==
  [kind |-> kind, of |-> Len(dbCalls), at |-> at, next |-> 0, rowErr |-> nil,
   visited |-> << >>, completed |-> 0, scanned |-> FALSE, end |-> NotEnded]

IsOpen(frame) == frame.at # "closed"

\* The Stmt or Rows that the last call returned was not put to use yet.
Fresh == \A i \in DOMAIN scope : scope[i].of # Len(dbCalls)

\* The calls of Stmt.Do and Rows.Each that have not returned, the innermost last.
OpenFrames == SelectSeq(scope, IsOpen)

\* The innermost of them, by its place in scope; 0 if there is none.
Top ==
  IF OpenFrames = << >> THEN 0
  ELSE CHOOSE i \in DOMAIN scope :
         IsOpen(scope[i]) /\ \A j \in (i + 1)..Len(scope) : ~IsOpen(scope[j])

\* The code of the callback f is running: f itself, or the callback of the
\* innermost Stmt.Do or Rows.Each that f is in.
Running == pc = "f" /\ (IF Top = 0 THEN TRUE ELSE scope[Top].at = "f")

\* The callback of a call of the given kind is running.
RunningIn(kind) == pc = "f" /\ (IF Top = 0 THEN FALSE
                                ELSE scope[Top].kind = kind /\ scope[Top].at = "f")

\* The deferred Close calls with the bug of leaving them out when f panics.
ClosesNothing(frames) == << >>

\* The deferred Close calls of the given calls of Stmt.Do and Rows.Each, the
\* innermost first, as a panic runs them; what Close returns is dropped.
RECURSIVE Closes(_)
Closes(frames) ==
  IF frames = << >> THEN << >>
  ELSE << DbCall(frames[Len(frames)].kind \o ".Close", nil) >>
       \o Closes(SubSeq(frames, 1, Len(frames) - 1))

\* A panic in f: the deferred calls of the open Stmt.Do and Rows.Each run, f
\* ends and the deferred function of DoContext runs. calls are the calls made
\* up to the panic, frames the calls of Stmt.Do and Rows.Each as they stand.
PanicsIn(v, calls, frames) ==
  /\ dbCalls' = calls \o Closes(SelectSeq(frames, IsOpen))
  /\ scope' = [i \in DOMAIN frames |->
                 IF IsOpen(frames[i]) THEN [frames[i] EXCEPT !.at = "closed", !.end = v]
                 ELSE frames[i]]
  /\ panicValue' = v
  /\ fEnd' = v
  /\ pc' = "deferred"

\* A panic in f with the calls of Stmt.Do and Rows.Each as they are.
PanicsWith(v, calls) == PanicsIn(v, calls, scope)

\* A method of the callback's Tx, Row or Rows that calls the database and
\* panics with an sxError when the call gives an error.
Must(call) ==
  /\ Running
  /\ Len(dbCalls) <= MaxSteps
  /\ \E e \in Errors \cup {nil} :
       IF e # nil
       THEN PanicsWith(sxError(e), Append(dbCalls, DbCall(call, e)))
       ELSE /\ dbCalls' = Append(dbCalls, DbCall(call, e))
            /\ UNCHANGED << pc, panicValue, fEnd, scope >>
  /\ UNCHANGED << err, sxVars >>

MustExecContext == Must("ExecContext")

MustQueryContext == Must("QueryContext")

MustPrepareContext == Must("PrepareContext")

MustScan == Must("Scan")

\* MustQueryRowContext: the error, if any, waits for the scan.
MustQueryRowContext ==
  /\ Running
  /\ Len(dbCalls) <= MaxSteps
  /\ dbCalls' = Append(dbCalls, DbCall("QueryRowContext", nil))
  /\ UNCHANGED << pc, err, panicValue, fEnd, scope, sxVars >>

\* stmt.Do(f) on the statement that MustPrepareContext just returned:
\* defer stmt.Close() and the call of f.
StmtDo ==
  /\ Running
  /\ dbCalls[Len(dbCalls)] = DbCall("PrepareContext", nil)
  /\ Fresh
  /\ scope' = Append(scope, Frame("Stmt", "f"))
  /\ UNCHANGED << pc, dbCalls, err, panicValue, fEnd, sxVars >>

\* The methods of the Stmt, called in the callback of Stmt.Do or further in.
StmtMustExecContext ==
  /\ \E i \in DOMAIN scope : IsOpen(scope[i]) /\ scope[i].kind = "Stmt"
  /\ Must("Stmt.ExecContext")

StmtMustQueryContext ==
  /\ \E i \in DOMAIN scope : IsOpen(scope[i]) /\ scope[i].kind = "Stmt"
  /\ Must("Stmt.QueryContext")

\* The callback of Stmt.Do returns: the deferred stmt.Close() runs and Do
\* returns.
StmtDoReturn ==
  /\ RunningIn("Stmt")
  /\ dbCalls' = Append(dbCalls, DbCall("Stmt.Close", nil))
  /\ scope' = [scope EXCEPT ![Top] = [@ EXCEPT !.at = "closed", !.end = Completed]]
  /\ UNCHANGED << pc, err, panicValue, fEnd, sxVars >>

\* rows.Each(f) on the Rows that MustQueryContext just returned: defer
\* rows.Close(), up to the head of the loop.
Each ==
  /\ Running
  /\ dbCalls[Len(dbCalls)] \in { DbCall("QueryContext", nil), DbCall("Stmt.QueryContext", nil) }
  /\ Fresh
  /\ scope' = Append(scope, Frame("Rows", "Next"))
  /\ UNCHANGED << pc, dbCalls, err, panicValue, fEnd, sxVars >>

\* The head of the loop of Each without the look at rows.Err().
RowsNextNoErr ==
  /\ pc = "f"
  /\ Top # 0
  /\ scope[Top].kind = "Rows" /\ scope[Top].at = "Next"
  /\ \E more \in { b \in BOOLEAN : b => scope[Top].next < MaxRows } :
       \E e \in IF more THEN {nil} ELSE Errors \cup {nil} :
         IF more
         THEN /\ scope' = [scope EXCEPT ![Top] =
                             [@ EXCEPT !.next = @ + 1,
                                       !.visited = Append(@, scope[Top].next + 1),
                                       !.scanned = FALSE,
                                       !.at = "f"]]
              /\ UNCHANGED << pc, dbCalls, panicValue, fEnd >>
         ELSE /\ dbCalls' = Append(dbCalls, DbCall("Rows.Close", nil))
              /\ scope' = [scope EXCEPT ![Top] =
                             [@ EXCEPT !.rowErr = e, !.at = "closed", !.end = Completed]]
              /\ UNCHANGED << pc, panicValue, fEnd >>
  /\ UNCHANGED << err, sxVars >>

\* The head of the loop of Each: rows.Next() reports one more row and f is
\* called for it, or it reports no more; then rows.Err() is looked at, Each
\* panics with the error or returns, and the deferred rows.Close() runs.
RowsNext ==
  /\ pc = "f"
  /\ Top # 0
  /\ scope[Top].kind = "Rows" /\ scope[Top].at = "Next"
  /\ \E more \in { b \in BOOLEAN : b => scope[Top].next < MaxRows } :
       \E e \in IF more THEN {nil} ELSE Errors \cup {nil} :
         IF more
         THEN /\ scope' = [scope EXCEPT ![Top] =
                             [@ EXCEPT !.next = @ + 1,
                                       !.visited = Append(@, scope[Top].next + 1),
                                       !.scanned = FALSE,
                                       !.at = "f"]]
              /\ UNCHANGED << pc, dbCalls, panicValue, fEnd >>
         ELSE IF e # nil
              THEN PanicsIn(sxError(e), Append(dbCalls, DbCall("Rows.Err", e)),
                            [scope EXCEPT ![Top] = [@ EXCEPT !.rowErr = e]])
              ELSE /\ dbCalls' = dbCalls \o << DbCall("Rows.Err", nil),
                                               DbCall("Rows.Close", nil) >>
                   /\ scope' = [scope EXCEPT ![Top] =
                                  [@ EXCEPT !.at = "closed", !.end = Completed]]
                   /\ UNCHANGED << pc, panicValue, fEnd >>
  /\ UNCHANGED << err, sxVars >>

\* rows.MustScan in the callback of Each, once for the row.
RowsMustScan ==
  /\ RunningIn("Rows")
  /\ ~scope[Top].scanned
  /\ \E e \in Errors \cup {nil} :
       IF e # nil
       THEN PanicsWith(sxError(e), Append(dbCalls, DbCall("Rows.Scan", e)))
       ELSE /\ dbCalls' = Append(dbCalls, DbCall("Rows.Scan", nil))
            /\ scope' = [scope EXCEPT ![Top] = [@ EXCEPT !.scanned = TRUE]]
            /\ UNCHANGED << pc, panicValue, fEnd >>
  /\ UNCHANGED << err, sxVars >>

\* The callback of Each returns for the row: back to the head of the loop.
EachReturn ==
  /\ RunningIn("Rows")
  /\ scope' = [scope EXCEPT ![Top] = [@ EXCEPT !.completed = @ + 1, !.at = "Next"]]
  /\ UNCHANGED << pc, dbCalls, err, panicValue, fEnd, sxVars >>

\* tx.Fail(err).
Fail ==
  /\ Running
  /\ \E e \in Errors \cup {nil} : PanicsWith(sxError(e), dbCalls)
  /\ UNCHANGED << err, sxVars >>

\* panic(v) in the callback, v no sxError.
Panic ==
  /\ Running
  /\ \E v \in Errors : PanicsWith(OtherPanic(v), dbCalls)
  /\ UNCHANGED << err, sxVars >>

\* f runs to completion.
Return ==
  /\ pc = "f"
  /\ Top = 0
  /\ fEnd' = Completed
  /\ pc' = "commit"
  /\ UNCHANGED << dbCalls, err, panicValue, scope, sxVars >>

\* The commit as it would be if its result were dropped.
CommitDropsErr ==
  /\ pc = "commit"
  /\ \E e \in Errors \cup {nil} : dbCalls' = Append(dbCalls, DbCall("Commit", e))
  /\ pc' = "deferred"
  /\ UNCHANGED << err, panicValue, fEnd, scope, sxVars >>

\* err = tx.Commit(); return.
Commit ==
  /\ pc = "commit"
  /\ \E e \in Errors \cup {nil} :
       /\ dbCalls' = Append(dbCalls, DbCall("Commit", e))
       /\ err' = e
  /\ pc' = "deferred"
  /\ UNCHANGED << panicValue, fEnd, scope, sxVars >>

\* The deferred function as it would be if it assigned a local err.
DeferredKeepsErr ==
  /\ pc = "deferred"
  /\ IF panicValue # NotPanicking
     THEN IF panicValue.type = "sxError"
          THEN /\ \E e \in Errors \cup {nil} :
                    dbCalls' = Append(dbCalls, DbCall("Rollback", e))
               /\ panicValue' = NotPanicking
               /\ pc' = "returned"
               /\ UNCHANGED err
          ELSE /\ pc' = "panicked"
               /\ UNCHANGED << dbCalls, err, panicValue >>
     ELSE /\ pc' = "returned"
          /\ UNCHANGED << dbCalls, err, panicValue >>
  /\ UNCHANGED << fEnd, scope, sxVars >>

\* The deferred function as it would be if it took every panic for its own.
DeferredCatchesAll ==
  /\ pc = "deferred"
  /\ IF panicValue # NotPanicking
     THEN /\ \E e \in Errors \cup {nil} :
               dbCalls' = Append(dbCalls, DbCall("Rollback", e))
          /\ err' = panicValue.err
          /\ panicValue' = NotPanicking
          /\ pc' = "returned"
     ELSE /\ pc' = "returned"
          /\ UNCHANGED << dbCalls, err, panicValue >>
  /\ UNCHANGED << fEnd, scope, sxVars >>

\* The deferred function of DoContext.
Deferred ==
  /\ pc = "deferred"
  /\ IF panicValue # NotPanicking
     THEN IF panicValue.type = "sxError"
          THEN /\ \E e \in Errors \cup {nil} :
                    dbCalls' = Append(dbCalls, DbCall("Rollback", e))
               /\ err' = panicValue.err
               /\ panicValue' = NotPanicking
               /\ pc' = "returned"
          ELSE /\ pc' = "panicked"
               /\ UNCHANGED << dbCalls, err, panicValue >>
     ELSE /\ pc' = "returned"
          /\ UNCHANGED << dbCalls, err, panicValue >>
  /\ UNCHANGED << fEnd, scope, sxVars >>

\* The caller goes on after Do returned, or after it recovered Do's panic.
Leave ==
  /\ pc \in { "returned", "panicked" }
  /\ pc' = "caller"
  /\ dbCalls' = << >>
  /\ err' = nil
  /\ panicValue' = NotPanicking
  /\ fEnd' = NotEnded
  /\ scope' = << >>
  /\ UNCHANGED sxVars

(***************************************************************************)
(* The caller: the calls it makes and the assignments it does.             *)
(***************************************************************************)
\* The table names and the alias the caller passes.
Tables == { << "z", "o", "o" >> }

Aliases == { << "a" >> }

\* The struct objects of the caller and their types.
Objects == { "data", "other" }

TypeOfObj(obj) == IF obj = "data" THEN structType ELSE OtherType

\* &data and &other.
DataPtr(obj) == PtrToStruct(TypeOfObj(obj), obj)

\* The field names the caller passes to UpdateFieldsQuery: those the struct
\* declares and one it does not.
FieldNames(t) == { t.Fields[i].Name : i \in DOMAIN t.Fields } \cup { << "N", "o" >> }

FieldLists(t) == UNION { [1..n -> FieldNames(t)] : n \in 0..MaxArgs }

NoArgs == [table |-> << >>]

\* What ret holds after a call that gave r: r without the cache, and the arguments.
Out(r, args) ==
  [k \in (DOMAIN r \ {"cache"}) \cup {"args"} |-> IF k = "args" THEN args ELSE r[k]]

\* What ret holds after a step of the caller that is no call of a builder.
CallerStep(op, args) ==
  [op |-> op, data |-> << >>, args |-> args, panic |-> NoPanic, err |-> << >>,
   text |-> << >>, values |-> << >>, addrs |-> << >>, list |-> << >>, calls |-> << >>]

\* The first matching returned for each type, once r.calls are counted in.
Resolve(r) ==
  IF r.calls = << >> \/ r.data.Elem.Type \in DOMAIN resolved THEN resolved
  ELSE [t \in DOMAIN resolved \cup {r.data.Elem.Type} |->
          IF t \in DOMAIN resolved THEN resolved[t] ELSE r.calls[1].m]

\* Between two calls the caller holds no result.
Idle == CallerStep("idle", NoArgs)

\* A call that gave r: the result goes to ret, the cache is as the call left it.
Call(r, args) ==
  /\ ret = Idle
  /\ ret' = Out(r, args)
  /\ matchingCache' = r.cache
  /\ resolved' = Resolve(r)
  /\ UNCHANGED << structType, heap, numberedPlaceholders, p, nextCalls, doVars, thVars >>

\* The goroutines that call into the package at the same time.
MaxThreads == 2

Threads == 1..MaxThreads

\* No goroutine holds matchingCacheMu.
Unlocked == 0

\* A goroutine that is in no call: where it stands, the function it called
\* and the argument, which call of matchingOf of that function it is in, and
\* what that call is about to return or to panic with.
NotCalling ==
  [pc |-> "idle", op |-> "", datatype |-> << >>, call |-> 0, m |-> NoMatching,
   panic |-> NoPanic]

\* A Placeholder declared with the given value: no call of Next on it yet, none
\* of them in ? mode.
Declared(seed) == [seed |-> seed, calls |-> 0, plain |-> 0]

Init ==
  /\ structType \in StructTypes
  /\ heap = [obj \in Objects |->
               ZeroStruct(IF obj = "data" THEN structType ELSE OtherType)]
  /\ matchingCache = << >>
  /\ numberedPlaceholders = FALSE
  /\ p = 0
  /\ ret = Idle
  /\ resolved = << >>
  /\ nextCalls = Declared(0)
  /\ pc = "caller"
  /\ dbCalls = << >>
  /\ err = nil
  /\ panicValue = NotPanicking
  /\ fEnd = NotEnded
  /\ scope = << >>
  /\ threads = [t \in Threads |-> NotCalling]
  /\ mu = Unlocked
  /\ built = << >>

CallMatchingOf ==
  \E obj \in Objects : Call(MatchingOfCall(matchingCache, DataPtr(obj)), NoArgs)

CallSelectQuery ==
  \E table \in Tables, obj \in Objects :
    Call(SelectQuery(matchingCache, table, DataPtr(obj)), [table |-> table])

CallSelectAliasQuery ==
  \E table \in Tables, alias \in Aliases :
    Call(SelectAliasQuery(matchingCache, table, alias, DataPtr("data")),
         [table |-> table, alias |-> alias])

CallInsertQuery ==
  \E table \in Tables :
    Call(InsertQuery(matchingCache, table, DataPtr("data")), [table |-> table])

CallUpdateQuery ==
  \E table \in Tables :
    Call(UpdateQuery(matchingCache, table, DataPtr("data")), [table |-> table])

CallUpdateAllQuery ==
  \E table \in Tables :
    Call(UpdateAllQuery(matchingCache, table, DataPtr("data")), [table |-> table])

CallUpdateFieldsQuery ==
  \E table \in Tables, fields \in FieldLists(structType) :
    Call(UpdateFieldsQuery(matchingCache, table, DataPtr("data"), fields),
         [table |-> table, fields |-> fields])

CallAddrs == Call(Addrs(matchingCache, DataPtr("data")), NoArgs)

CallValues == Call(Values(matchingCache, DataPtr("data")), NoArgs)

CallColumns == \E obj \in Objects : Call(Columns(matchingCache, DataPtr(obj)), NoArgs)

CallColumnsWriteable == Call(ColumnsWriteable(matchingCache, DataPtr("data")), NoArgs)

CallValueOf ==
  \E field \in FieldNames(structType) :
    Call(ValueOf(matchingCache, DataPtr("data"), field), [field |-> field])

CallColumnOf ==
  \E field \in FieldNames(structType) :
    Call(ColumnOf(matchingCache, DataPtr("data"), field), [field |-> field])

\* The arguments of the caller that are no pointer to a struct.
BadArguments == { NilArgument, StructValue(structType), PtrToInt, NilPtrToStruct }

\* The caller passes something else than a pointer to a struct; where a field
\* is asked for, it names the first field of its struct.
CallOnBadArgument ==
  \E d \in BadArguments, table \in Tables :
    LET field == structType.Fields[1].Name
    IN  \/ Call(MatchingOfCall(matchingCache, d), NoArgs)
        \/ Call(SelectQuery(matchingCache, table, d), [table |-> table])
        \/ \E alias \in Aliases :
             Call(SelectAliasQuery(matchingCache, table, alias, d),
                  [table |-> table, alias |-> alias])
        \/ Call(InsertQuery(matchingCache, table, d), [table |-> table])
        \/ Call(UpdateQuery(matchingCache, table, d), [table |-> table])
        \/ Call(UpdateAllQuery(matchingCache, table, d), [table |-> table])
        \/ \E fields \in { << >>, << field >> } :
             Call(UpdateFieldsQuery(matchingCache, table, d, fields),
                  [table |-> table, fields |-> fields])
        \/ Call(Addrs(matchingCache, d), NoArgs)
        \/ Call(Values(matchingCache, d), NoArgs)
        \/ Call(ValueOf(matchingCache, d, field), [field |-> field])
        \/ Call(Columns(matchingCache, d), NoArgs)
        \/ Call(ColumnsWriteable(matchingCache, d), NoArgs)
        \/ Call(ColumnOf(matchingCache, d, field), [field |-> field])

\* The length of the identifiers that are snake-cased one by one.
MaxIdent == 4

\* The characters of these identifiers: two capitals, a small letter, a digit
\* and the underscore.
IdentChars == { "A", "B", "a", "1", "_" }

\* The field names of the examples and of the tests.
HelloRPCWorld == << "H", "e", "l", "l", "o", "R", "P", "C", "W", "o", "r", "l", "d" >>

FOOBarBAZ == << "F", "O", "O", "B", "a", "r", "B", "A", "Z" >>

ChocolateID == << "C", "h", "o", "c", "o", "l", "a", "t", "e", "I", "D" >>

Identifiers ==
  UNION { [1..n -> IdentChars] : n \in 1..MaxIdent }
  \cup { HelloRPCWorld, FOOBarBAZ, ChocolateID }

\* snakeCase(in) for a field name.
CallSnakeCase ==
  /\ ret = Idle
  /\ \E in \in Identifiers :
       ret' = [CallerStep("snakeCase", [in |-> in, again |-> FALSE])
                 EXCEPT !.text = snakeCase(in)]
  /\ UNCHANGED << structType, heap, matchingCache, numberedPlaceholders, p, nextCalls, resolved, doVars, thVars >>

\* snakeCase of what snakeCase gave.
CallSnakeCaseAgain ==
  /\ ret.op = "snakeCase"
  /\ ~ret.args.again
  /\ ret' = [CallerStep("snakeCase", [in |-> ret.text, again |-> TRUE])
               EXCEPT !.text = snakeCase(ret.text)]
  /\ UNCHANGED << structType, heap, matchingCache, numberedPlaceholders, p, nextCalls, resolved, doVars, thVars >>

\* The caller is done with the result of its last call.
Discard ==
  /\ ret # Idle
  /\ ret' = Idle
  /\ UNCHANGED << structType, heap, matchingCache, numberedPlaceholders, p, nextCalls, resolved, doVars, thVars >>

\* data.F = v: the caller assigns a field of its record.
Assign ==
  /\ ret = Idle
  /\ \E i \in DOMAIN structType.Fields :
       \E v \in ValuesOfKind(structType.Fields[i].Kind) :
         /\ heap["data"][i] # v
         /\ heap' = [heap EXCEPT !["data"][i] = v]
  /\ UNCHANGED << structType, matchingCache, numberedPlaceholders, p, nextCalls, ret, resolved, doVars, thVars >>

\* *addrs[k] = v: a value is stored through the k-th address that Addrs returned,
\* as Scan does.
Store ==
  /\ ret.op = "Addrs"
  /\ \E k \in DOMAIN ret.addrs :
       LET a == ret.addrs[k]
       IN  \E v \in ValuesOfKind(TypeOfObj(a.obj).Fields[a.index + 1].Kind) :
             /\ heap' = [heap EXCEPT ![a.obj][a.index + 1] = v]
             /\ ret' = [CallerStep("store", [k |-> k, val |-> v]) EXCEPT
                          !.data = ret.data, !.addrs = ret.addrs]
  /\ UNCHANGED << structType, matchingCache, numberedPlaceholders, p, nextCalls, resolved, doVars, thVars >>

SetNumberedPlaceholders ==
  /\ ret = Idle
  /\ \E yes \in BOOLEAN : numberedPlaceholders' = yes
  /\ UNCHANGED << structType, heap, matchingCache, p, nextCalls, ret, resolved, doVars, thVars >>

\* var p Placeholder, or var p Placeholder = 1.
NewPlaceholder ==
  /\ ret = Idle
  /\ \E seed \in {0, 1} : p' = seed /\ nextCalls' = Declared(seed)
  /\ UNCHANGED << structType, heap, matchingCache, numberedPlaceholders, ret, resolved, doVars, thVars >>

\* p.Next().
CallNext ==
  /\ ret = Idle
  /\ p < MaxCount
  /\ LET nx == PlaceholderNext(p)
     IN  /\ p' = nx.p
         /\ ret' = [CallerStep("Next", [before |-> p]) EXCEPT !.text = nx.s]
         /\ nextCalls' = [nextCalls EXCEPT
                            !.calls = @ + 1,
                            !.plain = IF numberedPlaceholders THEN @ ELSE @ + 1]
  /\ UNCHANGED << structType, heap, matchingCache, numberedPlaceholders, resolved, doVars, thVars >>

(***************************************************************************)
(* Goroutines: matchingOf step by step, under matchingCacheMu.             *)
(***************************************************************************)
\* The arguments the goroutines pass: &data, &other and nil to matchingOf,
\* &data to InsertQuery.
ThreadArguments(op) ==
  IF op = "matchingOf" THEN { DataPtr(obj) : obj \in Objects } \cup { NilArgument }
  ELSE { DataPtr("data") }

\* v.Kind() != reflect.Ptr || v.Elem().Kind() != reflect.Struct.
NoPtrToStruct(datatype) ==
  IF datatype.Kind # "Ptr" THEN TRUE ELSE datatype.Elem.Kind # "Struct"

\* Goroutine t calls matchingOf(datatype) or InsertQuery(table, datatype) and
\* gets to matchingCacheMu.Lock().
ThCall(t) ==
  /\ threads[t].pc = "idle"
  /\ \E op \in { "matchingOf", "InsertQuery" } :
       \E datatype \in ThreadArguments(op) :
         threads' = [threads EXCEPT ![t] =
                       [NotCalling EXCEPT !.pc = "Lock", !.op = op,
                                          !.datatype = datatype, !.call = 1]]
  /\ UNCHANGED << mu, built, matchingCache, structType, heap, numberedPlaceholders, p,
                  nextCalls, ret, resolved, doVars >>

\* matchingCacheMu.Lock() as it would be if the mutex excluded nobody.
ThLockNoMutex(t) ==
  /\ threads[t].pc = "Lock"
  /\ mu' = t
  /\ threads' = [threads EXCEPT ![t].pc = "lookup"]
  /\ UNCHANGED << built, matchingCache, structType, heap, numberedPlaceholders, p,
                  nextCalls, ret, resolved, doVars >>

\* matchingCacheMu.Lock() returns for goroutine t.
ThLock(t) ==
  /\ threads[t].pc = "Lock"
  /\ mu = Unlocked
  /\ mu' = t
  /\ threads' = [threads EXCEPT ![t].pc = "lookup"]
  /\ UNCHANGED << built, matchingCache, structType, heap, numberedPlaceholders, p,
                  nextCalls, ret, resolved, doVars >>

\* The check of the argument and the look into the cache.
ThLookup(t) ==
  /\ threads[t].pc = "lookup"
  /\ LET datatype == threads[t].datatype
     IN  IF NoPtrToStruct(datatype)
         THEN threads' = [threads EXCEPT ![t].panic = PanicExpectedPtr, ![t].pc = "Unlock"]
         ELSE IF datatype.Elem.Type \in DOMAIN matchingCache
              THEN threads' = [threads EXCEPT ![t].m = matchingCache[datatype.Elem.Type],
                                              ![t].pc = "Unlock"]
              ELSE threads' = [threads EXCEPT ![t].pc = "build"]
  /\ UNCHANGED << mu, built, matchingCache, structType, heap, numberedPlaceholders, p,
                  nextCalls, ret, resolved, doVars >>

\* The struct types of the programs with goroutines: one read-only field
\* (IdX), or one field without a column (Ef).
ThreadStructs == { StructOf(<< 2 >>), StructOf(<< 4 >>) }

\* What the loop over the fields collects, for each struct type the
\* goroutines pass.
CollectedColumns ==
  [reflectType \in ThreadStructs \cup { OtherType } |->
     BuildColumns(reflectType, 0, << >>, << >>)]

\* The loop over the fields, and the new matching put into the cache.
ThBuild(t) ==
  /\ threads[t].pc = "build"
  /\ LET reflectType == threads[t].datatype.Elem.Type
         b == CollectedColumns[reflectType]
         m == [reflectType |-> reflectType, columns |-> b.cols, columnMap |-> b.colmap]
     IN  IF Len(b.cols) = 0
         THEN /\ threads' = [threads EXCEPT
                               ![t].panic = PanicStruct \o reflectType.Name \o NoUsableFields,
                               ![t].pc = "Unlock"]
              /\ UNCHANGED << matchingCache, built >>
         ELSE /\ threads' = [threads EXCEPT ![t].m = m, ![t].pc = "Unlock"]
              /\ matchingCache' = [k \in DOMAIN matchingCache \cup {reflectType} |->
                                     IF k = reflectType THEN m ELSE matchingCache[k]]
              /\ built' = [k \in DOMAIN built \cup {reflectType} |->
                             IF k = reflectType
                             THEN (IF k \in DOMAIN built THEN built[k] + 1 ELSE 1)
                             ELSE built[k]]
  /\ UNCHANGED << mu, structType, heap, numberedPlaceholders, p, nextCalls, ret, resolved,
                  doVars >>

\* Where goroutine t goes when its call of matchingOf has ended: out with the
\* panic, on to the second call of InsertQuery when no column is writeable,
\* out with the panic of InsertQuery after that one, or out with the result.
AfterMatchingOf(t) ==
  LET th == threads[t]
  IN  IF th.panic # NoPanic THEN [th EXCEPT !.pc = "panicked"]
      ELSE IF th.op = "InsertQuery" /\ InsertLoop(th.m.columns, 1, "(").n = 0
           THEN IF th.call = 1
                THEN [th EXCEPT !.pc = "Lock", !.call = 2, !.m = NoMatching]
                ELSE [th EXCEPT !.pc = "panicked",
                                !.panic = PanicStruct \o th.m.reflectType.Name
                                          \o NoWriteableFields]
           ELSE [th EXCEPT !.pc = "returned"]

\* The end of matchingOf as it would be if Unlock were called before the
\* return only, and not deferred.
ThUnlockNotDeferred(t) ==
  /\ threads[t].pc = "Unlock"
  /\ mu' = IF threads[t].panic # NoPanic THEN mu ELSE Unlocked
  /\ threads' = [threads EXCEPT ![t] = AfterMatchingOf(t)]
  /\ UNCHANGED << built, matchingCache, structType, heap, numberedPlaceholders, p,
                  nextCalls, ret, resolved, doVars >>

\* matchingOf returns or panics: the deferred matchingCacheMu.Unlock() runs.
ThUnlock(t) ==
  /\ threads[t].pc = "Unlock"
  /\ mu' = Unlocked
  /\ threads' = [threads EXCEPT ![t] = AfterMatchingOf(t)]
  /\ UNCHANGED << built, matchingCache, structType, heap, numberedPlaceholders, p,
                  nextCalls, ret, resolved, doVars >>

\* Goroutine t has its result, or has recovered the panic, and is free for the
\* next call.
ThDone(t) ==
  /\ threads[t].pc \in { "returned", "panicked" }
  /\ threads' = [threads EXCEPT ![t] = NotCalling]
  /\ UNCHANGED << mu, built, matchingCache, structType, heap, numberedPlaceholders, p,
                  nextCalls, ret, resolved, doVars >>

InitThreads == Init /\ structType \in ThreadStructs

\* A program whose goroutines call matchingOf and InsertQuery.
NextThreads ==
  \/ \E t \in Threads : ThCall(t)
  \/ \E t \in Threads : ThLock(t)
  \/ \E t \in Threads : ThLookup(t)
  \/ \E t \in Threads : ThBuild(t)
  \/ \E t \in Threads : ThUnlock(t)
  \/ \E t \in Threads : ThDone(t)

SpecThreads == InitThreads /\ [][NextThreads]_vars

\* The same program with a scheduler that lets every goroutine go on and a
\* mutex that hands itself to each goroutine that waits for it.
SpecThreadsFair ==
  /\ InitThreads
  /\ [][NextThreads]_vars
  /\ \A t \in Threads :
       /\ WF_vars(ThLookup(t) \/ ThBuild(t) \/ ThUnlock(t) \/ ThDone(t))
       /\ SF_vars(ThLock(t))

\* A program that builds statements for its records.
Next ==
  \/ CallMatchingOf
  \/ CallSelectQuery
  \/ CallSelectAliasQuery
  \/ CallInsertQuery
  \/ CallUpdateQuery
  \/ CallUpdateAllQuery
  \/ CallAddrs
  \/ CallValues
  \/ CallColumns
  \/ CallColumnsWriteable
  \/ Discard
  \/ Assign
  \/ Store
  \/ SetNumberedPlaceholders

Spec == Init /\ [][Next]_vars

\* A program that updates its records, whole or by chosen fields.
NextFields ==
  \/ CallUpdateQuery
  \/ CallUpdateAllQuery
  \/ CallUpdateFieldsQuery
  \/ Assign
  \/ SetNumberedPlaceholders
  \/ Discard

SpecFields == Init /\ [][NextFields]_vars

\* A program that only generates placeholders.
NextPlaceholder ==
  \/ SetNumberedPlaceholders
  \/ NewPlaceholder
  \/ CallNext
  \/ Discard

SpecPlaceholder == Init /\ [][NextPlaceholder]_vars

\* A program that generates placeholders itself and has statements built,
\* changing the style of the placeholders in between.
NextStyle ==
  \/ SetNumberedPlaceholders
  \/ NewPlaceholder
  \/ CallNext
  \/ CallInsertQuery
  \/ CallUpdateAllQuery
  \/ Discard

SpecStyle == Init /\ [][NextStyle]_vars

\* A program that calls every statement builder and every read accessor on
\* its records and changes the style of the placeholders.
NextRead ==
  \/ CallSelectQuery
  \/ CallSelectAliasQuery
  \/ CallInsertQuery
  \/ CallUpdateQuery
  \/ CallUpdateAllQuery
  \/ CallUpdateFieldsQuery
  \/ CallValues
  \/ CallValueOf
  \/ CallColumns
  \/ CallColumnsWriteable
  \/ CallColumnOf
  \/ SetNumberedPlaceholders
  \/ Discard

SpecRead == Init /\ [][NextRead]_vars

\* A program that looks up fields and makes calls that abort.
NextLookup ==
  \/ CallMatchingOf
  \/ CallSelectQuery
  \/ CallInsertQuery
  \/ CallUpdateQuery
  \/ CallAddrs
  \/ CallValues
  \/ CallColumns
  \/ CallValueOf
  \/ CallColumnOf
  \/ CallOnBadArgument
  \/ Assign
  \/ Discard

SpecLookup == Init /\ [][NextLookup]_vars

\* A program that derives column names, for the struct of the one field Ab.
InitSnake == Init /\ structType = StructOf(<< 3 >>)

NextSnake ==
  \/ CallSnakeCase
  \/ CallSnakeCaseAgain
  \/ Discard

SpecSnake == InitSnake /\ [][NextSnake]_vars

\* A program that runs transactions with prepared statements and with queries
\* whose rows it goes through.
NextEach ==
  \/ DoContext
  \/ MustQueryContext
  \/ MustPrepareContext
  \/ StmtDo
  \/ StmtMustExecContext
  \/ StmtMustQueryContext
  \/ StmtDoReturn
  \/ Each
  \/ RowsNext
  \/ RowsMustScan
  \/ EachReturn
  \/ Fail
  \/ Panic
  \/ Return
  \/ Commit
  \/ Deferred
  \/ Leave

SpecEach == InitSnake /\ [][NextEach]_vars

\* A program that runs transactions.
NextDo ==
  \/ DoContext
  \/ MustExecContext
  \/ MustQueryContext
  \/ MustQueryRowContext
  \/ MustPrepareContext
  \/ MustScan
  \/ Fail
  \/ Panic
  \/ Return
  \/ Commit
  \/ Deferred
  \/ Leave

SpecDo == Init /\ [][NextDo]_vars

(***************************************************************************)
(* What the claims speak of.                                               *)
(***************************************************************************)
\* The last step was a call of op that returned without a panic.
Succeeded(op) == ret.op = op /\ ret.panic = NoPanic

\* The struct type the last call was made for, and the matching it worked with.
RetType == ret.data.Elem.Type

RetM == ret.calls[1].m

\* The record the last call was made for.
RetRecord == heap[ret.data.obj]

\* The position of the first c in s, Len(s) + 1 if there is none.
IndexOf(s, c) ==
  IF c \in Range(s) THEN CHOOSE i \in DOMAIN s : s[i] = c /\ \A j \in 1..(i - 1) : s[j] # c
  ELSE Len(s) + 1

\* The first segment of a tag, and whether a later segment is "readonly", read
\* off the tag by the positions of its commas.
FirstSegment(tag) == SubSeq(tag, 1, IndexOf(tag, ",") - 1)

IsSegment(tag, a, b) ==
  /\ a = 0 \/ tag[a] = ","
  /\ b = Len(tag) + 1 \/ tag[b] = ","
  /\ \A j \in (a + 1)..(b - 1) : tag[j] # ","

LaterReadonly(tag) ==
  \E a \in 1..Len(tag) :
    LET b == a + Len(readonlyTag) + 1
    IN  /\ b <= Len(tag) + 1
        /\ IsSegment(tag, a, b)
        /\ SubSeq(tag, a + 1, b - 1) = readonlyTag

\* A field that gets a column: exported and not excluded with "-".
Usable(field) == IsUpper(field.Name[1]) /\ FirstSegment(field.Tag) # << "-" >>

\* The column name a field is to get.
ColumnNameOf(field) ==
  IF FirstSegment(field.Tag) # << >> THEN FirstSegment(field.Tag)
  ELSE snakeCase(field.Name)

\* The matching m is the one its struct type t is to have.
MatchingAsDeclared(t, m) ==
  /\ m.reflectType = t
  /\ \A k \in 1..(Len(m.columns) - 1) : m.columns[k].index < m.columns[k + 1].index
  /\ { m.columns[k].index : k \in DOMAIN m.columns }
       = { i - 1 : i \in { j \in DOMAIN t.Fields : Usable(t.Fields[j]) } }
  /\ \A k \in DOMAIN m.columns :
       LET field == t.Fields[m.columns[k].index + 1]
       IN  /\ m.columns[k].name = ColumnNameOf(field)
           /\ m.columns[k].readonly <=> LaterReadonly(field.Tag)

\* C1: the matching that matchingOf returns for a struct type, to any caller and
\* from the cache or not, has the columns of exactly the exported fields whose
\* first tag segment is not "-", in declaration order, each with the field's
\* position in the struct, the first tag segment or else the snake-cased field
\* name as its name, and read-only iff a tag segment after the first is "readonly".
C1_MatchingAsDeclared ==
  /\ \A k \in DOMAIN ret.calls : MatchingAsDeclared(RetType, ret.calls[k].m)
  /\ \A t \in DOMAIN matchingCache : MatchingAsDeclared(t, matchingCache[t])

\* A struct whose first field is excluded and whose second is tagged "readonly"
\* in the first segment: one column, of position 1, named readonly, writeable.
C1_Witness ==
  /\ Succeeded("matchingOf")
  /\ Len(RetType.Fields) = 2
  /\ ~ret.calls[1].hit
  /\ RetM.columns = << [index |-> 1, name |-> readonlyTag, readonly |-> FALSE] >>

\* The fields of a struct type that are to get a column, and those of them
\* that are to be written, in declaration order.
UsableFields(t) == SelectSeq(t.Fields, Usable)

WriteableFields(t) ==
  LET W(field) == Usable(field) /\ ~LaterReadonly(field.Tag) IN SelectSeq(t.Fields, W)

ColumnNames(fields) == [i \in DOMAIN fields |-> ColumnNameOf(fields[i])]

Comma == << "," >>

\* Whether text begins with prefix.
StartsWith(text, prefix) ==
  Len(text) >= Len(prefix) /\ SubSeq(text, 1, Len(prefix)) = prefix

\* The column list of "SELECT <columns> FROM <table>".
SelectListOf(text, table) ==
  Split(SubSeq(text, Len(kSELECT) + 2, Len(text) - Len(kFROM) - Len(table)))

\* The entries <column>=<placeholder> of "UPDATE <table> SET <entries>", and
\* the two sides of an entry.
SetEntries(text, table) ==
  LET rest == SubSeq(text, Len(kUPDATE) + Len(table) + Len(kSET) + 1, Len(text))
  IN  IF rest = << >> THEN << >> ELSE Split(rest)

EntryColumn(e) == SubSeq(e, 1, IndexOf(e, "=") - 1)

EntryPlaceholder(e) == SubSeq(e, IndexOf(e, "=") + 1, Len(e))

SetColumns(text, table) ==
  [i \in DOMAIN SetEntries(text, table) |-> EntryColumn(SetEntries(text, table)[i])]

SetPlaceholders(text, table) ==
  [i \in DOMAIN SetEntries(text, table) |-> EntryPlaceholder(SetEntries(text, table)[i])]

\* C2: SelectQuery and SelectAliasQuery list the columns of all usable fields of
\* the struct type, the read-only ones included; InsertQuery and UpdateAllQuery
\* list exactly those that are not read-only; all four in declaration order and
\* without the "-" and the unexported fields.
C2_ColumnLists ==
  /\ Succeeded("SelectQuery") =>
       ret.text = kSELECT \o << " " >> \o Join(ColumnNames(UsableFields(RetType)), Comma)
                  \o kFROM \o ret.args.table
  /\ Succeeded("SelectAliasQuery") =>
       ret.text = kSELECT \o << " " >>
                  \o Join([i \in DOMAIN UsableFields(RetType) |->
                             ret.args.alias \o << "." >>
                             \o ColumnNameOf(UsableFields(RetType)[i])], Comma)
                  \o kFROM \o ret.args.table \o << " " >> \o ret.args.alias
  /\ Succeeded("InsertQuery") =>
       StartsWith(ret.text, kINSERT \o ret.args.table \o << " ", "(" >>
                            \o Join(ColumnNames(WriteableFields(RetType)), Comma)
                            \o kVALUES)
  /\ Succeeded("UpdateAllQuery") =>
       /\ StartsWith(ret.text, kUPDATE \o ret.args.table \o kSET)
       /\ SetColumns(ret.text, ret.args.table) = ColumnNames(WriteableFields(RetType))

\* InsertQuery for a struct of a read-only field and a writeable one names the
\* writeable column alone.
C2_Witness ==
  /\ Succeeded("InsertQuery")
  /\ Len(RetM.columns) = 2
  /\ RetM.columns[1].readonly
  /\ StartsWith(ret.text, kINSERT \o ret.args.table \o << " ", "(" >>
                          \o RetM.columns[2].name \o kVALUES)

\* The table name used where a claim compares one call with another.
AnyTable == CHOOSE table \in Tables : TRUE

\* The field of struct type t whose column has the given name.
FieldOfColumn(t, name) ==
  CHOOSE j \in DOMAIN t.Fields : Usable(t.Fields[j]) /\ ColumnNameOf(t.Fields[j]) = name

\* C3: Addrs returns one address per matching column, in the order of the column
\* list of SelectQuery for the type, the i-th being the address of the record's
\* own field for the i-th column; a value stored through it is then the value
\* of that field of the record.
C3_AddrsOfOwnFields ==
  /\ Succeeded("Addrs") =>
       LET list == SelectListOf(SelectQuery(matchingCache, AnyTable, ret.data).text, AnyTable)
       IN  /\ Len(ret.addrs) = Len(RetM.columns)
           /\ Len(ret.addrs) = Len(list)
           /\ \A i \in DOMAIN ret.addrs :
                ret.addrs[i] = [obj |-> ret.data.obj,
                                index |-> FieldOfColumn(RetType, list[i]) - 1]
  /\ ret.op = "store" =>
       LET list == SelectListOf(SelectQuery(matchingCache, AnyTable, ret.data).text, AnyTable)
       IN  RetRecord[FieldOfColumn(RetType, list[ret.args.k])] = ret.args.val

\* A value that is not zero was stored through the first address of a struct
\* whose first field has no column: it is in the second field.
C3_Witness ==
  /\ ret.op = "store"
  /\ ret.args.k = 1
  /\ ~Usable(RetType.Fields[1])
  /\ ~valueIsZero(ret.args.val)
  /\ RetRecord[2] = ret.args.val

\* The placeholders InsertQuery is to write for n values.
InsertMarks(n) ==
  [i \in 1..n |-> IF numberedPlaceholders THEN << "$" >> \o << DigitSeq[i + 1] >>
                  ELSE << "?" >>]

\* The statement InsertQuery is to return for the struct type t.
InsertTextFor(t, table) ==
  kINSERT \o table \o << " ", "(" >> \o Join(ColumnNames(WriteableFields(t)), Comma)
  \o kVALUES \o << "(" >> \o Join(InsertMarks(Len(WriteableFields(t))), Comma)
  \o << ")" >>

\* The values of the writeable fields of a record of type t, in declaration order.
WriteableValues(t, record) ==
  LET idx == LET W(j) == Usable(t.Fields[j]) /\ ~LaterReadonly(t.Fields[j].Tag)
             IN  SelectSeq([j \in DOMAIN t.Fields |-> j], W)
  IN  [i \in DOMAIN idx |-> record[idx[i]]]

\* C4: for a record with W >= 1 writeable columns, InsertQuery names these W
\* columns in matching order and then W placeholders, $1..$W or W times ?, and
\* Values returns W values, the i-th the current value of the field of the i-th
\* named column, zero values included and read-only fields left out.
C4_InsertAndValues ==
  /\ Succeeded("InsertQuery") =>
       /\ Len(WriteableFields(RetType)) >= 1
       /\ ret.text = InsertTextFor(RetType, ret.args.table)
       /\ Values(matchingCache, ret.data).values = WriteableValues(RetType, RetRecord)
  /\ (Succeeded("Values") /\ Len(WriteableFields(RetType)) >= 1) =>
       /\ ret.values = WriteableValues(RetType, RetRecord)
       /\ InsertQuery(matchingCache, AnyTable, ret.data).text
            = InsertTextFor(RetType, AnyTable)

\* Values for a record of a read-only field that is set and a writeable field
\* that is zero returns the zero alone.
C4_Witness ==
  /\ Succeeded("Values")
  /\ Len(RetM.columns) = 2
  /\ RetM.columns[1].readonly /\ ~valueIsZero(RetRecord[RetM.columns[1].index + 1])
  /\ ~RetM.columns[2].readonly
  /\ ret.values = << IntVal(0) >>

\* A value that is not the zero value of its kind.
NotZero(val) == IF val.kind = "ptr" THEN ~val.isNil ELSE val.v # 0

\* The positions of the fields of a record of type t that UpdateQuery is to
\* write: usable, not read-only and not zero, in declaration order.
ChangedFields(t, record) ==
  LET C(j) == /\ Usable(t.Fields[j])
              /\ ~LaterReadonly(t.Fields[j].Tag)
              /\ NotZero(record[j])
  IN  SelectSeq([j \in DOMAIN t.Fields |-> j], C)

\* C5: the SET list of UpdateQuery has exactly the writeable columns whose field
\* is not zero, in matching order, with a value list of the same length whose
\* i-th entry is that of the i-th SET column; read-only and excluded fields do
\* not contribute even when set; when no field qualifies the result is the empty
\* text and no values.
C5_UpdateSetsNonZero ==
  Succeeded("UpdateQuery") =>
    LET idx == ChangedFields(RetType, RetRecord)
    IN  IF idx = << >> THEN ret.text = << >> /\ ret.values = << >>
        ELSE /\ StartsWith(ret.text, kUPDATE \o ret.args.table \o kSET)
             /\ SetColumns(ret.text, ret.args.table)
                  = [i \in DOMAIN idx |-> ColumnNameOf(RetType.Fields[idx[i]])]
             /\ Len(ret.values) = Len(idx)
             /\ \A i \in DOMAIN idx : ret.values[i].v = RetRecord[idx[i]].v

\* UpdateQuery for a record whose read-only field and whose writeable field are
\* both set writes the writeable column alone.
C5_Witness ==
  /\ Succeeded("UpdateQuery")
  /\ Len(RetM.columns) = 2
  /\ RetM.columns[1].readonly /\ NotZero(RetRecord[RetM.columns[1].index + 1])
  /\ SetColumns(ret.text, ret.args.table) = << RetM.columns[2].name >>
  /\ Len(ret.values) = 1

\* C6: UpdateQuery skips a writeable pointer field iff the pointer is nil; a
\* pointer that is not nil contributes its column even when it points at zero,
\* and the value bound is the value pointed at, not the pointer.
C6_UpdatePointers ==
  Succeeded("UpdateQuery") =>
    \A j \in DOMAIN RetType.Fields :
      LET field == RetType.Fields[j]
          cols == SetColumns(ret.text, ret.args.table)
      IN  (Usable(field) /\ ~LaterReadonly(field.Tag) /\ field.Kind = "ptr") =>
            /\ ColumnNameOf(field) \in Range(cols) <=> ~RetRecord[j].isNil
            /\ ~RetRecord[j].isNil =>
                 ret.values[IndexOf(cols, ColumnNameOf(field))] = IntVal(RetRecord[j].v)

\* UpdateQuery for a record whose pointer field points at zero binds the zero.
C6_Witness ==
  /\ Succeeded("UpdateQuery")
  /\ \E j \in DOMAIN RetType.Fields : RetRecord[j] = PtrTo(0)
  /\ ret.values = << IntVal(0) >>

\* C7: in numbered mode UpdateQuery, UpdateAllQuery and UpdateFieldsQuery number
\* the placeholders of their SET entries $2, $3, ... from left to right without
\* gaps, also when fields are skipped, and never write $1; otherwise every
\* placeholder is ?.
C7_UpdateNumbering ==
  (ret.op \in {"UpdateQuery", "UpdateAllQuery", "UpdateFieldsQuery"} /\ ret.panic = NoPanic) =>
    LET marks == SetPlaceholders(ret.text, ret.args.table)
    IN  \A i \in DOMAIN marks :
          marks[i] = IF numberedPlaceholders THEN << "$", DigitSeq[i + 2] >> ELSE << "?" >>

\* UpdateQuery in numbered mode skips the first column, whose field is zero, and
\* gives the second one $2.
C7_Witness ==
  /\ Succeeded("UpdateQuery")
  /\ numberedPlaceholders
  /\ Len(RetM.columns) = 2
  /\ ~RetM.columns[1].readonly /\ ~NotZero(RetRecord[RetM.columns[1].index + 1])
  /\ SetEntries(ret.text, ret.args.table) = << RetM.columns[2].name \o << "=", "$", "2" >> >>

\* The decimal numerals of 1, 2, 3, ...
Numerals ==
  << << "1" >>, << "2" >>, << "3" >>, << "4" >>, << "5" >>, << "6" >>, << "7" >>,
     << "8" >>, << "9" >>, << "1", "0" >>, << "1", "1" >>, << "1", "2" >>,
     << "1", "3" >>, << "1", "4" >>, << "1", "5" >> >>

\* C8: a call of Next advances the counter by exactly one and then renders it:
\* in numbered mode it returns $ and the new count (so $k for the k-th call on a
\* zero Placeholder and $2 for the first call on one set to 1), otherwise ?
\* whatever the count.
C8_NextAdvancesThenRenders ==
  ret.op = "Next" =>
    /\ p = ret.args.before + 1
    /\ ret.text = IF numberedPlaceholders THEN << "$" >> \o Numerals[p] ELSE << "?" >>

\* The twelfth call in numbered mode has returned $12.
C8_Witness ==
  /\ ret.op = "Next"
  /\ numberedPlaceholders
  /\ ret.args.before = 11
  /\ ret.text = << "$", "1", "2" >>

\* The field of struct type t with the given name, and whether the name resolves
\* in the matching of t.
FieldNamed(t, name) == CHOOSE j \in DOMAIN t.Fields : t.Fields[j].Name = name

Resolves(t, name) ==
  \E j \in DOMAIN t.Fields : t.Fields[j].Name = name /\ Usable(t.Fields[j])

\* C9: for a list of field names that is not empty and whose names all resolve,
\* UpdateFieldsQuery writes one SET entry per name in the caller's order,
\* read-only fields too, and returns as many values, the i-th the current value
\* of the i-th named field as it is, zero or not.
C9_UpdateFieldsAsGiven ==
  (/\ ret.op = "UpdateFieldsQuery"
   /\ ret.args.fields # << >>
   /\ \A i \in DOMAIN ret.args.fields : Resolves(RetType, ret.args.fields[i])) =>
    /\ ret.panic = NoPanic
    /\ StartsWith(ret.text, kUPDATE \o ret.args.table \o kSET)
    /\ SetColumns(ret.text, ret.args.table)
         = [i \in DOMAIN ret.args.fields |->
              ColumnNameOf(RetType.Fields[FieldNamed(RetType, ret.args.fields[i])])]
    /\ ret.values
         = [i \in DOMAIN ret.args.fields |->
              RetRecord[FieldNamed(RetType, ret.args.fields[i])]]

\* UpdateFieldsQuery for the second field, which is zero, and then the first,
\* which is read-only, writes both in this order.
C9_Witness ==
  /\ Succeeded("UpdateFieldsQuery")
  /\ Len(ret.args.fields) = 2
  /\ FieldNamed(RetType, ret.args.fields[1]) = 2
  /\ FieldNamed(RetType, ret.args.fields[2]) = 1
  /\ LaterReadonly(RetType.Fields[1].Tag)
  /\ Len(ret.values) = 2
  /\ ~NotZero(ret.values[1])

\* The order, the names and the read-only flags of the columns of a matching.
ColumnsSeen(m) ==
  [i \in DOMAIN m.columns |-> [name |-> m.columns[i].name, readonly |-> m.columns[i].readonly]]

\* C10: every call of matchingOf for a type, from the cache or not and whatever
\* calls for other types came before, returns a matching with the column order,
\* the names and the read-only flags of the one the first call for that type
\* returned.
C10_ResolveIdempotent ==
  \A k \in DOMAIN ret.calls :
    /\ RetType \in DOMAIN resolved
    /\ ColumnsSeen(ret.calls[k].m) = ColumnsSeen(resolved[RetType])

\* A call for the struct type is served from the cache after the other type was
\* resolved too.
C10_Witness ==
  /\ ret.calls # << >>
  /\ ret.calls[1].hit
  /\ RetType = structType
  /\ OtherType \in DOMAIN resolved
  /\ Len(ret.calls[1].m.columns) = 2

(***************************************************************************)
(* Transactions.                                                           *)
(***************************************************************************)
\* Control has left Do: it returned or it panicked.
Left == pc \in { "returned", "panicked" }

\* db.BeginTx was called and gave a transaction.
Begun == dbCalls # << >> /\ dbCalls[1] = DbCall("BeginTx", nil)

\* db.BeginTx was called and gave an error.
BeginFailed == dbCalls # << >> /\ dbCalls[1].call = "BeginTx" /\ dbCalls[1].err # nil

\* How many times a method was invoked on the transaction.
Invoked(call) == Cardinality({ i \in DOMAIN dbCalls : dbCalls[i].call = call })

\* The last call made on the transaction.
LastCall == dbCalls[Len(dbCalls)]

\* C11: when control has left a call of Do whose Begin succeeded, exactly
\* one of Commit and Rollback was invoked on the transaction: Commit if the
\* callback ran to completion, Rollback otherwise.
C11_CommitOrRollback ==
  (Left /\ Begun) =>
    /\ Invoked("Commit") + Invoked("Rollback") = 1
    /\ IF fEnd = Completed THEN Invoked("Commit") = 1 ELSE Invoked("Rollback") = 1

\* The calls the callback made on the transaction.
CallbackCalls ==
  { i \in DOMAIN dbCalls : dbCalls[i].call \notin { "BeginTx", "Commit", "Rollback" } }

\* C12: once the callback called Fail(err) or a Must*** method met an error
\* err, the callback runs no further and Commit is never invoked; every
\* call of the callback but the failed one succeeded, the failed one is
\* its last and gave err; and when Do has returned, Rollback was invoked
\* once, after all calls of the callback, and Do returned exactly err, which
\* is nil after Fail(nil).
C12_FailRollsBack ==
  fEnd.type = "sxError" =>
    /\ pc \in { "deferred", "returned" }
    /\ Invoked("Commit") = 0
    /\ \A i \in CallbackCalls :
         dbCalls[i].err # nil =>
           /\ dbCalls[i].err = fEnd.err
           /\ \A j \in CallbackCalls : j <= i
    /\ pc = "deferred" => Invoked("Rollback") = 0 /\ panicValue = fEnd
    /\ pc = "returned" =>
         /\ Invoked("Rollback") = 1
         /\ LastCall.call = "Rollback"
         /\ err = fEnd.err

\* Do returned the error that a Must*** method met, after a rollback.
C12_Witness ==
  /\ pc = "returned"
  /\ fEnd = sxError("x-ray error")
  /\ err = "x-ray error"
  /\ Len(dbCalls) = 4
  /\ dbCalls[2] = DbCall("QueryContext", nil)
  /\ dbCalls[3] = DbCall("ExecContext", "x-ray error")
  /\ dbCalls[4].call = "Rollback"

C14_BeginFails ==
  BeginFailed =>
    /\ pc = "returned"
    /\ err = dbCalls[1].err
    /\ fEnd = NotEnded
    /\ Len(dbCalls) = 1
    /\ panicValue = NotPanicking

\* Begin failed with the yankee error of the test, here the zulu error.
C14_Witness ==
  /\ BeginFailed
  /\ pc = "returned"
  /\ err = "zulu error"

\* C15: a panic of the callback with a value that is no sxError is not
\* turned into a return of Do: the deferred function leaves err alone,
\* invokes neither Commit nor Rollback for it, and Do ends in a panic
\* that carries the same value.
C15_OtherPanicPropagates ==
  fEnd.type = "error" =>
    /\ pc \in { "deferred", "panicked" }
    /\ panicValue = fEnd
    /\ err = nil

\* Do ended in the panic that the callback raised with the zulu error.
C15_Witness ==
  /\ pc = "panicked"
  /\ fEnd = OtherPanic("zulu error")
  /\ panicValue = OtherPanic("zulu error")

(***************************************************************************)
(* Aborts.                                                                 *)
(***************************************************************************)
\* The call was made with a pointer to a struct.
ForStruct == ret.data # << >> /\ ret.data.Kind = "Ptr" /\ ret.data.Elem.Kind = "Struct"

\* The beginning of the messages that name a struct type.
SxStruct == << "s", "x", ":", " ", "s", "t", "r", "u", "c", "t", " " >>

\* "sx: struct <type> has no writeable fields".
SaysNoWriteableFields(t) ==
  SxStruct \o t.Name
  \o << " ", "h", "a", "s", " ", "n", "o", " ", "w", "r", "i", "t", "e", "a", "b", "l", "e",
        " ", "f", "i", "e", "l", "d", "s" >>

\* C16: InsertQuery for a struct type that has columns, all of them
\* read-only, aborts with "sx: struct <type> has no writeable fields", <type>
\* being the name of the struct type, and returns no statement text.
C16_InsertAllReadonly ==
  (ret.op = "InsertQuery" /\ ForStruct
   /\ UsableFields(RetType) # << >> /\ WriteableFields(RetType) = << >>) =>
    /\ ret.panic = SaysNoWriteableFields(RetType)
    /\ ret.text = << >>

\* InsertQuery aborted for the struct of the two read-only fields IdX and UV.
C16_Witness ==
  /\ ret.op = "InsertQuery"
  /\ ForStruct
  /\ Len(RetType.Fields) = 2
  /\ RetType.Fields[1].Name = << "I", "d", "X" >>
  /\ RetType.Fields[2].Name = << "U", "V" >>
  /\ ret.panic = SaysNoWriteableFields(RetType)
  /\ ret.text = << >>

\* "sx: expected a pointer to a struct".
SaysExpectedPointer ==
  << "s", "x", ":", " ", "e", "x", "p", "e", "c", "t", "e", "d", " ", "a", " ",
     "p", "o", "i", "n", "t", "e", "r", " ", "t", "o", " ", "a", " ",
     "s", "t", "r", "u", "c", "t" >>

\* The builders and accessors that take a record, and the resolution itself.
RecordOps ==
  { "matchingOf", "SelectQuery", "SelectAliasQuery", "InsertQuery", "UpdateQuery",
    "UpdateAllQuery", "UpdateFieldsQuery", "Addrs", "Values", "ValueOf", "Columns",
    "ColumnsWriteable", "ColumnOf" }

\* The last call gave its caller nothing.
NothingReturned ==
  /\ ret.text = << >>
  /\ ret.values = << >>
  /\ ret.addrs = << >>
  /\ ret.list = << >>
  /\ ret.err = << >>

\* C17: a call of a builder or accessor with an argument that is no pointer
\* to a struct (nil, a struct passed by value, a pointer to a non-struct)
\* aborts with "sx: expected a pointer to a struct", returns nothing and
\* leaves the matching cache as it was before the call.
C17_BadArgumentAborts ==
  [][ (ret = Idle /\ ret'.op \in RecordOps /\ ~ForStruct') =>
        /\ ret'.panic = SaysExpectedPointer
        /\ NothingReturned'
        /\ matchingCache' = matchingCache ]_vars

\* UpdateFieldsQuery aborted on nil and no fields, with the matching of the
\* other struct in the cache.
C17_Witness ==
  /\ ret.op = "UpdateFieldsQuery"
  /\ ret.data = NilArgument
  /\ ret.args.fields = << >>
  /\ ret.panic = SaysExpectedPointer
  /\ DOMAIN matchingCache = { OtherType }

\* "sx: struct <type> has no usable fields".
SaysNoUsableFields(t) ==
  SxStruct \o t.Name
  \o << " ", "h", "a", "s", " ", "n", "o", " ", "u", "s", "a", "b", "l", "e", " ",
        "f", "i", "e", "l", "d", "s" >>

\* C18: every call for a struct type none of whose fields gets a column
\* aborts with "sx: struct <type> has no usable fields", is given no matching
\* and leaves none in the cache for the type, whatever was called before; and
\* every matching that a call was given or that the cache holds has at
\* least one column.
C18_NoEmptyMatching ==
  /\ (ret.op \in RecordOps /\ ForStruct /\ UsableFields(RetType) = << >>) =>
       /\ ret.panic = SaysNoUsableFields(RetType)
       /\ NothingReturned
       /\ ret.calls = << >>
       /\ RetType \notin DOMAIN matchingCache
  /\ \A t \in DOMAIN matchingCache : Len(matchingCache[t].columns) >= 1
  /\ \A k \in DOMAIN ret.calls : Len(ret.calls[k].m.columns) >= 1

\* Columns aborted for the struct of the excluded field Ef and the unexported
\* field gh, after a call for the other struct had filled the cache.
C18_Witness ==
  /\ ret.op = "Columns"
  /\ ForStruct
  /\ Len(RetType.Fields) = 2
  /\ RetType.Fields[1].Name = << "E", "f" >>
  /\ RetType.Fields[2].Name = << "g", "h" >>
  /\ ret.panic = SaysNoUsableFields(RetType)
  /\ DOMAIN matchingCache = { OtherType }

\* " has no usable field ", before the name of the field.
HasNoUsableField ==
  << " ", "h", "a", "s", " ", "n", "o", " ", "u", "s", "a", "b", "l", "e", " ",
     "f", "i", "e", "l", "d", " " >>

\* "sx: struct <type> has no usable field <field>".
SaysNoUsableField(t, field) == SxStruct \o t.Name \o HasNoUsableField \o field

\* What C19 says of a call of ValueOf: the abort for a name that does not
\* resolve, the current value of the field for every other name.
ValueOfAsStated ==
  IF Resolves(RetType, ret.args.field)
  THEN /\ ret.panic = NoPanic
       /\ ret.values = << RetRecord[FieldNamed(RetType, ret.args.field)] >>
  ELSE /\ ret.panic = SaysNoUsableField(RetType, ret.args.field)
       /\ ret.values = << >>

\* C19 as stated: ValueOf for a pointer to a struct aborts with
\* "sx: struct <type> has no usable field <field>" whenever the field name
\* does not exist, names an unexported field or names a field excluded with
\* "-", and returns the field's current value for every other name.
C19_ValueOfOrAbort == (ret.op = "ValueOf" /\ ForStruct) => ValueOfAsStated

\* C19 as amended: the same for a struct type with at least one usable
\* field; for a struct type with none ValueOf aborts with
\* "sx: struct <type> has no usable fields", whatever the field name.
C19_ValueOfOrAbortUsable ==
  (ret.op = "ValueOf" /\ ForStruct) =>
    IF UsableFields(RetType) # << >>
    THEN ValueOfAsStated
    ELSE ret.panic = SaysNoUsableFields(RetType) /\ ret.values = << >>

\* ValueOf gave 7 for the field Ro, second in a struct whose first field Ef
\* is excluded and holds 0.
C19_Witness ==
  /\ Succeeded("ValueOf")
  /\ Len(RetType.Fields) = 2
  /\ RetType.Fields[1].Name = << "E", "f" >>
  /\ ret.args.field = << "R", "o" >>
  /\ RetRecord[1] = IntVal(0)
  /\ ret.values = << IntVal(7) >>

\* C20: ColumnOf for a pointer to a struct with at least one usable field
\* never aborts: for a field in the matching it returns the column name and
\* no error, for every other field name an empty name and an error whose
\* text, "struct <type> has no usable field <field>", names the type and the
\* field.
C20_ColumnOfNeverAborts ==
  (ret.op = "ColumnOf" /\ ForStruct /\ UsableFields(RetType) # << >>) =>
    /\ ret.panic = NoPanic
    /\ IF Resolves(RetType, ret.args.field)
       THEN /\ ret.text = ColumnNameOf(RetType.Fields[FieldNamed(RetType, ret.args.field)])
            /\ ret.err = << >>
       ELSE /\ ret.text = << >>
            /\ ret.err = << "s", "t", "r", "u", "c", "t", " " >> \o RetType.Name
                         \o HasNoUsableField \o ret.args.field

\* ColumnOf gave an error for the excluded field Ef of a struct that has the
\* usable field Ab.
C20_Witness ==
  /\ ret.op = "ColumnOf"
  /\ ForStruct
  /\ Len(RetType.Fields) = 2
  /\ RetType.Fields[1].Name = << "A", "b" >>
  /\ ret.args.field = << "E", "f" >>
  /\ ret.panic = NoPanic
  /\ ret.text = << >>
  /\ ret.err # << >>

(***************************************************************************)
(* The aborts of UpdateFieldsQuery.                                        *)
(***************************************************************************)
\* "UpdateFieldsQuery requires at least one field".
SaysAtLeastOneField ==
  << "U", "p", "d", "a", "t", "e", "F", "i", "e", "l", "d", "s", "Q", "u", "e", "r", "y", " ",
     "r", "e", "q", "u", "i", "r", "e", "s", " ", "a", "t", " ", "l", "e", "a", "s", "t", " ",
     "o", "n", "e", " ", "f", "i", "e", "l", "d" >>

\* The first of the given names that does not resolve for struct type t.
FirstUnresolvable(t, fields) ==
  fields[CHOOSE i \in DOMAIN fields :
           /\ ~Resolves(t, fields[i])
           /\ \A j \in 1..(i - 1) : Resolves(t, fields[j])]

\* What C21 says of a call of UpdateFieldsQuery without names or with a name
\* that does not resolve.
UpdateFieldsAborts ==
  /\ ret.text = << >>
  /\ ret.values = << >>
  /\ IF ret.args.fields = << >>
     THEN ret.panic = SaysAtLeastOneField
     ELSE ret.panic = << "s", "t", "r", "u", "c", "t", " " >> \o RetType.Name
                      \o HasNoUsableField \o FirstUnresolvable(RetType, ret.args.fields)

\* The call is one of UpdateFieldsQuery for a struct, without names or with
\* a name that does not resolve.
UpdateFieldsBadNames ==
  /\ ret.op = "UpdateFieldsQuery"
  /\ ForStruct
  /\ \/ ret.args.fields = << >>
     \/ \E i \in DOMAIN ret.args.fields : ~Resolves(RetType, ret.args.fields[i])

\* C21 as stated: UpdateFieldsQuery aborts with "UpdateFieldsQuery requires
\* at least one field" when it is given no field name, and with a message
\* that names the type and the field when a given name does not resolve;
\* in both cases it returns no text and no values.
C21_UpdateFieldsAborts == UpdateFieldsBadNames => UpdateFieldsAborts

\* C21 as amended: the same for a struct type with at least one usable
\* field, the message naming the first name that does not resolve; for a
\* struct type with none UpdateFieldsQuery aborts with
\* "sx: struct <type> has no usable fields", whatever the names.
C21_UpdateFieldsAbortsUsable ==
  UpdateFieldsBadNames =>
    IF UsableFields(RetType) # << >>
    THEN UpdateFieldsAborts
    ELSE /\ ret.panic = SaysNoUsableFields(RetType)
         /\ ret.text = << >>
         /\ ret.values = << >>

\* UpdateFieldsQuery aborted on the excluded field Ef, named after the
\* usable field Ab.
C21_Witness ==
  /\ ret.op = "UpdateFieldsQuery"
  /\ ForStruct
  /\ ret.args.fields = << << "A", "b" >>, << "E", "f" >> >>
  /\ ret.panic = << "s", "t", "r", "u", "c", "t", " " >> \o RetType.Name
                 \o HasNoUsableField \o << "E", "f" >>
  /\ ret.text = << >>
  /\ ret.values = << >>

(***************************************************************************)
(* Derived column names.                                                   *)
(***************************************************************************)
\* The small letter of a capital, the character itself otherwise.
Lowered(c) ==
  IF \E i \in DOMAIN UpperSeq : UpperSeq[i] = c
  THEN LowerSeq[CHOOSE i \in DOMAIN UpperSeq : UpperSeq[i] = c]
  ELSE c

\* An identifier of letters and digits.
LettersAndDigits(x) ==
  \A k \in DOMAIN x : x[k] \in Range(UpperSeq) \cup Range(LowerSeq) \cup Range(DigitSeq)

\* Whether an underscore belongs before character k of x: k is a capital, not
\* the first character, and either follows a small letter or a digit, or
\* starts a capitalized word.
WordStart(x, k) ==
  /\ k > 1
  /\ x[k] \in Range(UpperSeq)
  /\ \/ x[k - 1] \in Range(LowerSeq) \cup Range(DigitSeq)
     \/ k < Len(x) /\ x[k + 1] \in Range(LowerSeq)

\* The name that is to be derived from the characters k.. of x.
RECURSIVE DerivedFrom(_, _)
DerivedFrom(x, k) ==
  IF k > Len(x) THEN << >>
  ELSE (IF WordStart(x, k) THEN << "_" >> ELSE << >>)
       \o << Lowered(x[k]) >> \o DerivedFrom(x, k + 1)

hello_rpc_world ==
  << "h", "e", "l", "l", "o", "_", "r", "p", "c", "_", "w", "o", "r", "l", "d" >>

foo_bar_baz == << "f", "o", "o", "_", "b", "a", "r", "_", "b", "a", "z" >>

chocolate_id == << "c", "h", "o", "c", "o", "l", "a", "t", "e", "_", "i", "d" >>

\* C22: for an identifier of letters and digits the derived name is the
\* identifier in small letters with an underscore exactly before each
\* capital that follows a small letter or a digit and before each capital
\* that starts a capitalized word and is not the first character; it
\* neither begins nor ends with an underscore; and HelloRPCWorld, FOOBarBAZ
\* and ChocolateID give hello_rpc_world, foo_bar_baz and chocolate_id.
C22_DerivedName ==
  (ret.op = "snakeCase" /\ LettersAndDigits(ret.args.in)) =>
    /\ ret.text = DerivedFrom(ret.args.in, 1)
    /\ ret.text[1] # "_"
    /\ ret.text[Len(ret.text)] # "_"
    /\ ret.args.in = HelloRPCWorld => ret.text = hello_rpc_world
    /\ ret.args.in = FOOBarBAZ => ret.text = foo_bar_baz
    /\ ret.args.in = ChocolateID => ret.text = chocolate_id

\* ABa1 gave a_ba1: one underscore, before the capital that starts a word.
C22_Witness ==
  /\ ret.op = "snakeCase"
  /\ ret.args.in = << "A", "B", "a", "1" >>
  /\ ret.text = << "a", "_", "b", "a", "1" >>

\* C23: deriving the name of a derived name gives the derived name again.
C23_DerivedNameIdempotent ==
  (ret.op = "snakeCase" /\ ret.args.again) => ret.text = ret.args.in

\* The name a_ba derived from ABa was derived again and stayed a_ba.
C23_Witness ==
  /\ ret.op = "snakeCase"
  /\ ret.args.again
  /\ ret.args.in = << "a", "_", "b", "a" >>
  /\ ret.text = << "a", "_", "b", "a" >>

(***************************************************************************)
(* The style of the placeholders.                                          *)
(***************************************************************************)
\* C27: a Placeholder renders in the mode that is set when Next is called and
\* counts in both modes: when every earlier call of Next on a zero Placeholder
\* was made in ? mode, k of them, and the mode is numbered by now, this call
\* returns $ and k + 1; and the placeholders of one built statement are all
\* of one style, that of the mode.
C27_ModeReadAtRendering ==
  /\ ( /\ ret.op = "Next"
       /\ numberedPlaceholders
       /\ nextCalls.seed = 0
       /\ nextCalls.plain = nextCalls.calls - 1 ) =>
       ret.text = << "$" >> \o Numerals[nextCalls.plain + 1]
  /\ (Succeeded("InsertQuery") \/ Succeeded("UpdateAllQuery")) =>
       Range(ret.text) \cap { "?", "$" }
         \subseteq { IF numberedPlaceholders THEN "$" ELSE "?" }

\* Three calls of Next returned ?, the mode was changed, and the fourth call
\* returned $4.
C27_Witness ==
  /\ ret.op = "Next"
  /\ numberedPlaceholders
  /\ nextCalls = [seed |-> 0, calls |-> 4, plain |-> 3]
  /\ ret.text = << "$", "4" >>

(***************************************************************************)
(* UpdateAllQuery for a struct without writeable columns.                  *)
(***************************************************************************)
\* "UPDATE <table> SET " without an assignment.
UpdateNothing(table) ==
  << "U", "P", "D", "A", "T", "E", " " >> \o table \o << " ", "S", "E", "T", " " >>

\* C29: UpdateAllQuery never aborts with "has no writeable fields"; for a
\* struct type that has columns it returns a text: "UPDATE <table> SET " and
\* nothing more when all the columns are read-only, where InsertQuery aborts,
\* and otherwise one assignment for each writeable column, in their order.
C29_UpdateAllNoWriteable ==
  (ret.op = "UpdateAllQuery" /\ ForStruct) =>
    /\ ret.panic # SaysNoWriteableFields(RetType)
    /\ UsableFields(RetType) # << >> =>
         /\ ret.panic = NoPanic
         /\ StartsWith(ret.text, UpdateNothing(ret.args.table))
         /\ SetColumns(ret.text, ret.args.table) = ColumnNames(WriteableFields(RetType))
         /\ WriteableFields(RetType) = << >> =>
              /\ ret.text = UpdateNothing(ret.args.table)
              /\ InsertQuery(matchingCache, ret.args.table, ret.data).panic
                   = SaysNoWriteableFields(RetType)

\* UpdateAllQuery returned a text without assignments for the struct of the
\* two read-only fields IdX and UV.
C29_Witness ==
  /\ Succeeded("UpdateAllQuery")
  /\ Len(RetType.Fields) = 2
  /\ RetType.Fields[1].Name = << "I", "d", "X" >>
  /\ RetType.Fields[2].Name = << "U", "V" >>
  /\ ret.text = UpdateNothing(ret.args.table)

(***************************************************************************)
(* What the builders and the read accessors leave alone.                   *)
(***************************************************************************)
ReadOps ==
  { "SelectQuery", "SelectAliasQuery", "InsertQuery", "UpdateQuery", "UpdateAllQuery",
    "UpdateFieldsQuery", "Values", "ValueOf", "Columns", "ColumnsWriteable", "ColumnOf" }

\* The struct types whose matching a call for the argument data may add.
TypeOfArgument(data) ==
  IF data # << >> /\ data.Kind = "Ptr" /\ data.Elem.Kind = "Struct"
  THEN { data.Elem.Type } ELSE { }

\* C30: a call of a statement builder or of a read accessor leaves the records,
\* the placeholder mode and each matching that is in the cache as they are; it
\* adds to the cache at most the matching of the type of its record.
C30_ReadOpsFrame ==
  [][ (ret = Idle /\ ret'.op \in ReadOps) =>
        /\ heap' = heap
        /\ numberedPlaceholders' = numberedPlaceholders
        /\ \A t \in DOMAIN matchingCache :
             t \in DOMAIN matchingCache' /\ matchingCache'[t] = matchingCache[t]
        /\ DOMAIN matchingCache' \subseteq DOMAIN matchingCache \cup TypeOfArgument(ret'.data)
    ]_vars

\* ValueOf, called in numbered mode, added the matching of the type of its
\* record to the cache that held the matching of the other type.
C30_Witness ==
  /\ Succeeded("ValueOf")
  /\ ~ret.calls[1].hit
  /\ DOMAIN matchingCache = { OtherType, RetType }
  /\ RetType # OtherType
  /\ numberedPlaceholders

(***************************************************************************)
(* Rows.Each and Stmt.Do.                                                  *)
(***************************************************************************)
\* The calls of Rows.Each and of Stmt.Do made in this call of Do.
EachCalls == { i \in DOMAIN scope : scope[i].kind = "Rows" }

StmtDoCalls == { i \in DOMAIN scope : scope[i].kind = "Stmt" }

\* The rows 1, ..., n in their order.
RowsUpTo(n) == [r \in 1..n |-> r]

\* C25: Each calls the callback once for each row that the result set
\* reports, in their order, and has closed the result set once whenever it
\* is left, by return or by panic. When the result set ended with an error
\* after k rows, or the callback for row k + 1 was aborted by a failure, k
\* calls of the callback have returned, no row after that was visited, and
\* the Do that has returned rolled back, after the Close, and returned
\* that error.
C25_EachVisitsAndCloses ==
  /\ Invoked("Rows.Close") = Cardinality({ i \in EachCalls : ~IsOpen(scope[i]) })
  /\ pc # "f" => \A i \in EachCalls : ~IsOpen(scope[i])
  /\ \A i \in EachCalls :
       LET each == scope[i]
           k == each.completed
       IN  /\ each.visited = RowsUpTo(each.next)
           /\ each.end = Completed => k = each.next /\ each.rowErr = nil
           /\ each.rowErr # nil =>
                /\ each.end = sxError(each.rowErr)
                /\ each.visited = RowsUpTo(k)
           /\ (each.end.type = "sxError" /\ each.rowErr = nil) =>
                each.visited = RowsUpTo(k + 1)
           /\ (each.end.type = "sxError" /\ pc = "returned") =>
                /\ Invoked("Rollback") = 1
                /\ Invoked("Commit") = 0
                /\ LastCall.call = "Rollback"
                /\ err = each.end.err

\* A result set gave one row, which the callback scanned, and then ended with
\* the x-ray error: Each closed it, Do rolled back and returned the error.
C25_Witness ==
  /\ pc = "returned"
  /\ Len(scope) = 1
  /\ scope[1].kind = "Rows"
  /\ scope[1].rowErr = "x-ray error"
  /\ scope[1].visited = << 1 >>
  /\ scope[1].completed = 1
  /\ dbCalls = << DbCall("BeginTx", nil), DbCall("QueryContext", nil),
                  DbCall("Rows.Scan", nil), DbCall("Rows.Err", "x-ray error"),
                  DbCall("Rows.Close", nil), DbCall("Rollback", nil) >>
  /\ err = "x-ray error"

\* C28: Stmt.Do has closed its statement once whenever it is left, whether
\* its callback returned or was aborted by a failure, and not before; and
\* each Close of a statement comes before the Commit or the Rollback of the
\* transaction.
C28_StmtClosedOnce ==
  /\ Invoked("Stmt.Close") = Cardinality({ i \in StmtDoCalls : ~IsOpen(scope[i]) })
  /\ pc # "f" => \A i \in StmtDoCalls : ~IsOpen(scope[i])
  /\ \A i \in StmtDoCalls : IsOpen(scope[i]) <=> scope[i].end = NotEnded
  /\ \A i, j \in DOMAIN dbCalls :
       (dbCalls[i].call = "Stmt.Close" /\ dbCalls[j].call \in { "Commit", "Rollback" })
         => i < j

\* The callback of Stmt.Do was aborted by the failure of stmt.MustExecContext:
\* the statement was closed and then the transaction rolled back.
C28_Witness ==
  /\ pc = "returned"
  /\ Len(scope) = 1
  /\ scope[1].kind = "Stmt"
  /\ scope[1].end = sxError("zulu error")
  /\ dbCalls = << DbCall("BeginTx", nil), DbCall("PrepareContext", nil),
                  DbCall("Stmt.ExecContext", "zulu error"), DbCall("Stmt.Close", nil),
                  DbCall("Rollback", nil) >>

(***************************************************************************)
(* Goroutines and the cache of matchings.                                  *)
(***************************************************************************)
\* The struct type that goroutine t resolves.
TypeAsked(t) == threads[t].datatype.Elem.Type

\* Goroutine t holds the matching that its call of matchingOf found or made.
HoldsMatching(t) == threads[t].m # NoMatching

\* C24: however the calls of the goroutines interleave, each call that gets a
\* matching gets the one that a first call for its type alone would make,
\* which is the one in the cache; at most one matching is constructed for a
\* type; and an entry of the cache is never replaced, removed or changed.
C24_OneMatchingPerType ==
  /\ [](\A t \in Threads :
          HoldsMatching(t) =>
            /\ threads[t].m = matchingOf(<< >>, threads[t].datatype).m
            /\ MatchingAsDeclared(TypeAsked(t), threads[t].m)
            /\ TypeAsked(t) \in DOMAIN matchingCache
            /\ matchingCache[TypeAsked(t)] = threads[t].m)
  /\ [](DOMAIN built = DOMAIN matchingCache /\ \A k \in DOMAIN built : built[k] = 1)
  /\ [][\A k \in DOMAIN matchingCache :
          k \in DOMAIN matchingCache' /\ matchingCache'[k] = matchingCache[k]]_vars

\* Two goroutines asked for the same type at the same time; both returned with
\* the one matching that was constructed, while the cache holds the matching
\* of the other type too.
C24_Witness ==
  /\ threads[1].pc = "returned" /\ threads[2].pc = "returned"
  /\ threads[1].datatype = DataPtr("other")
  /\ threads[2].datatype = DataPtr("other")
  /\ threads[1].m = threads[2].m
  /\ built[OtherType] = 1
  /\ DOMAIN matchingCache = { structType, OtherType }

\* Goroutine t is inside matchingOf, between Lock and Unlock.
InMatchingOf(t) == threads[t].pc \in { "lookup", "build", "Unlock" }

\* C26: matchingCacheMu is held by a goroutine exactly while it is inside
\* matchingOf: it is released when the call returns and when it aborts, and
\* a goroutine that calls matchingOf, the second call of InsertQuery
\* included, does not hold it; so every call of matchingOf gets the lock and
\* comes to its end.
C26_LockReleased ==
  /\ [](\A t \in Threads : InMatchingOf(t) <=> mu = t)
  /\ \A t \in Threads : (threads[t].pc = "Lock") ~> InMatchingOf(t)
  /\ \A t \in Threads : InMatchingOf(t) ~> (mu # t)

\* Goroutine 1 was aborted because its struct has no usable field, goroutine 2
\* was aborted because of its argument, and goroutine 1 holds the lock again
\* in the second call of InsertQuery.
C26_Witness ==
  /\ \E k \in DOMAIN built : built[k] = 1
  /\ threads[2].pc = "panicked"
  /\ threads[2].panic = PanicExpectedPtr
  /\ threads[1].op = "InsertQuery"
  /\ threads[1].call = 2
  /\ threads[1].pc = "lookup"
  /\ mu = 1

====
